---- MODULE Spec2Model ----
(***************************************************************************)
(* Versioned snapshot store of debug-pro: the tiered storage manager       *)
(* (SnapshotStorage over a Supabase bucket pair and a Redis cache) and the *)
(* session/version manager (SessionManager).                               *)
(*                                                                         *)
(* Every handler is an `async def` whose awaits reach only synchronous     *)
(* client calls (redis-py, supabase-py), so a handler never yields to the  *)
(* event loop: one handler is one atomic action.  Inside an action the     *)
(* handler's storage calls are composed in program order over a "world"    *)
(* record w; a fault plan pl says whether Redis answers during the call    *)
(* and which durable-store call, if any, fails.                            *)
(***************************************************************************)
EXTENDS Integers, Sequences, FiniteSets, TLC

VARIABLES
  snapshot_storage,   \* bucket "snapshots": snapshot id -> files (path -> content)
  session_storage,    \* bucket "sessions":  session id  -> persisted session data
  redis_snapshot,     \* hashes deebo:snapshot:<id>
  redis_file,         \* hashes deebo:file:<id>:<path>, keyed <<id, path>>
  redis_session,      \* hashes deebo:session:<id>
  redis_diff,         \* strings deebo:diff:<base_id>:<target_id>, keyed <<base_id, target_id>>
  active_sessions,    \* SessionManager._active_sessions
  calls,              \* update_session calls in flight: where each one is, and its locals
  algebra,            \* a diff computation: its two snapshots, the diff, the diff applied
  extraction,         \* a metadata extraction: the file, and what two calls on it gave
  n_updates,          \* per session: update_session calls that returned a session
  faults              \* calls so far that ran under a single-call fault

vars == <<snapshot_storage, session_storage, redis_snapshot, redis_file,
          redis_session, redis_diff, active_sessions, calls, algebra, extraction, n_updates,
          faults>>

(***************************************************************************)
(* Bounds                                                                  *)
(***************************************************************************)
MaxHistory == 3       \* longest version_history a call may start from is one less
MaxFaultAt == 5       \* a fault plan fails one of the first MaxFaultAt calls of its kind
MaxFaults == 1        \* calls of one behaviour that run under a single-call fault

\* Ids are opaque uuid4 strings; these are the ones a behaviour may draw.
SnapshotIds == {1, 2}
SeqSnapshotIds == {1, 2, 3}
SessionIds == {1}

(***************************************************************************)
(* File contents.  BIG stands for the string "x" repeated 524288 times (a  *)
(* file of exactly 512 KiB); the other contents are literal.               *)
(***************************************************************************)
BIG == "x*524288"
CACHE_LIMIT == 524288

content_size(c) ==
  CASE c = BIG -> 524288
    [] c = "" -> 0
    [] c = "7" -> 1
    [] c = "x=1" -> 3
    [] c = "x=2" -> 3
    [] c = "[1,2]" -> 5
    [] c = "[1, 2]" -> 6
    [] OTHER -> 4

\* json.loads(v) guarded by `except json.JSONDecodeError: keep v`, as
\* get_hash_cache applies it to every field of a hash.
json_loads(v) ==
  CASE v = "7" -> [type |-> "int", truthy |-> TRUE, text |-> "7"]
    [] v = "[1,2]" -> [type |-> "list", truthy |-> TRUE, text |-> "[1, 2]"]
    [] v = "[1, 2]" -> [type |-> "list", truthy |-> TRUE, text |-> "[1, 2]"]
    [] OTHER -> [type |-> "str", truthy |-> (v # ""), text |-> v]

(***************************************************************************)
(* Finite maps                                                             *)
(***************************************************************************)
Put(f, k, v) == [x \in (DOMAIN f) \cup {k} |-> IF x = k THEN v ELSE f[x]]
Drop(f, k) == [x \in (DOMAIN f) \ {k} |-> f[x]]
Empty == [x \in {} |-> 0]

(***************************************************************************)
(* Fault plans: what goes wrong during one call, at most one thing.        *)
(* cache = FALSE: every Redis command of the call raises RedisError.       *)
(* kind/at: the at-th Redis command of the call raises RedisError          *)
(* ("cerr"); the at-th durable-store upload of the call fails with an      *)
(* error other than 409 ("werr") or is answered 409 Duplicate ("w409",     *)
(* possible only for an object that exists); the at-th download raises     *)
(* ("rerr").                                                               *)
(***************************************************************************)
NoFault == [cache |-> TRUE, kind |-> "none", at |-> 0]
CacheDown == [cache |-> FALSE, kind |-> "none", at |-> 0]
CachePlans ==
  {CacheDown} \cup [cache : {TRUE}, kind : {"cerr"}, at : 1..MaxFaultAt]
Plans ==
  {NoFault} \cup CachePlans \cup
  [cache : {TRUE}, kind : {"werr", "w409", "rerr"}, at : 1..MaxFaultAt]

(***************************************************************************)
(* SupabaseStorage                                                         *)
(***************************************************************************)
\* upload_file as the n-th upload of a call: the bucket it leaves, whether it
\* raises, whether the write failed.  An error whose text holds "409" is
\* swallowed and the object is left as it was.
upload_file(bucket, path, data, pl, n) ==
  IF pl.kind = "werr" /\ pl.at = n
    THEN [bucket |-> bucket, exc |-> TRUE, failed |-> TRUE]
    ELSE IF pl.kind = "w409" /\ pl.at = n /\ path \in DOMAIN bucket
      THEN [bucket |-> bucket, exc |-> FALSE, failed |-> TRUE]
      ELSE [bucket |-> Put(bucket, path, data), exc |-> FALSE, failed |-> FALSE]

\* download_file as the n-th download of a call: [status, data].
download_file(bucket, path, pl, n) ==
  IF pl.kind = "rerr" /\ pl.at = n
    THEN [status |-> "raise", data |-> Empty]
    ELSE IF path \in DOMAIN bucket
      THEN [status |-> "ok", data |-> bucket[path]]
      ELSE [status |-> "none", data |-> Empty]

(***************************************************************************)
(* RedisClient                                                             *)
(***************************************************************************)
\* Whether the n-th Redis command of a call is answered.
redis_ok(pl, n) == pl.cache /\ ~(pl.kind = "cerr" /\ pl.at = n)

\* set_hash_cache as the n-th Redis command of a call: HMSET of the
\* stringified mapping; RedisError is swallowed.
set_hash_cache(cache, key, mapping, pl, n) ==
  IF redis_ok(pl, n) THEN Put(cache, key, mapping) ELSE cache

\* get_hash_cache as the n-th Redis command of a call: HGETALL, then json.loads on every value, keeping the
\* string where it is no JSON.  Ids and ISO timestamps are no JSON; a file's
\* content may be.  An absent key and a RedisError both give None (hit =
\* FALSE); exc says whether an exception leaves the method.
get_hash_cache(cache, key, pl, n) ==
  IF redis_ok(pl, n) /\ key \in DOMAIN cache
    THEN [hit |-> TRUE, exc |-> FALSE,
          val |-> [f \in DOMAIN cache[key] |->
                     IF f = "content" THEN json_loads(cache[key][f])
                     ELSE cache[key][f]]]
    ELSE [hit |-> FALSE, exc |-> FALSE, val |-> Empty]

(***************************************************************************)
(* SnapshotStorage                                                         *)
(***************************************************************************)
NoSnapshot == [id |-> 0, files |-> Empty]
NoMetadata == [present |-> FALSE, version_history |-> <<>>]
NoSession == [id |-> 0, snapshot |-> NoSnapshot, metadata |-> NoMetadata]

World ==
  [snapshot_storage |-> snapshot_storage, session_storage |-> session_storage,
   redis_snapshot |-> redis_snapshot, redis_file |-> redis_file,
   redis_session |-> redis_session,
   nw |-> 0,            \* uploads the call has made
   nr |-> 0,            \* downloads the call has made
   nc |-> 0,            \* Redis commands the call has made
   wfail |-> FALSE,     \* an upload of the call failed
   exc |-> ""]          \* the exception leaving the call, if any

\* The files store_snapshot mirrors into the cache.
cacheable(snapshot) ==
  {p \in DOMAIN snapshot.files : content_size(snapshot.files[p]) < CACHE_LIMIT}

\* The place of path in the iteration over a dict with these paths (a dict
\* iterates in insertion order; payloads name "a.py" before "b.txt").
position(paths, path) ==
  IF path = "b.txt" /\ "a.py" \in paths THEN 2 ELSE 1

store_snapshot(w, pl, snapshot) ==
  LET up == upload_file(w.snapshot_storage, snapshot.id, snapshot.files, pl, w.nw + 1)
      paths == cacheable(snapshot)
      \* the file hashes whose HMSET is answered
      written == {<<snapshot.id, p>> : p \in {q \in paths :
                     redis_ok(pl, w.nc + 1 + position(paths, q))}}
  IN IF up.exc
       THEN [w EXCEPT !.exc = "StorageError", !.nw = @ + 1, !.wfail = TRUE]
       ELSE [w EXCEPT
               !.snapshot_storage = up.bucket,
               !.nw = @ + 1,
               !.wfail = @ \/ up.failed,
               !.nc = @ + 1 + Cardinality(paths),
               !.redis_snapshot =
                 set_hash_cache(@, snapshot.id, [id |-> snapshot.id], pl, w.nc + 1),
               !.redis_file =
                 [k \in (DOMAIN @) \cup written |->
                    IF k \in written THEN [content |-> snapshot.files[k[2]]]
                    ELSE @[k]]]

\* One file of a snapshot whose cache metadata was found: from its cache
\* hash when that has content below the limit, else from the Supabase data.
get_file(w, pl, snapshot_id, path, stored, n) ==
  LET file_data == get_hash_cache(w.redis_file, <<snapshot_id, path>>, pl, n)
      content == file_data.val.content
  IN IF file_data.exc THEN [src |-> "raise", content |-> ""]
     ELSE IF file_data.hit /\ content.truthy
       THEN IF content.type \notin {"str", "dict", "list"}
              THEN [src |-> "raise", content |-> ""]   \* content.encode(): AttributeError
              ELSE IF content_size(content.text) < CACHE_LIMIT
                     THEN [src |-> "cache", content |-> content.text]
                     ELSE [src |-> "supabase", content |-> stored]
       ELSE [src |-> "supabase", content |-> stored]

\* What get_snapshot hands back: the world it leaves, how it ends, the
\* snapshot, and the paths it served from the cache.
Read(w, status, snapshot, cached) ==
  [w |-> w, status |-> status, snapshot |-> snapshot, cached |-> cached]

Raised(w, exc) == [w EXCEPT !.exc = exc]

\* "Return snapshot with mix of cached and non-cached files".
snapshot_from_cache(w, snapshot_id, got) ==
  IF \E p \in DOMAIN got : got[p].src = "raise"
    THEN Read(Raised(w, "Error"), "raise", NoSnapshot, {})
    ELSE Read(w, "ok",
              [id |-> snapshot_id, files |-> [p \in DOMAIN got |-> got[p].content]],
              {p \in DOMAIN got : got[p].src = "cache"})

\* "If no Redis cache, create snapshot from Supabase data": w is the world
\* after "Cache in Redis for next time".
snapshot_from_supabase(w, snapshot) ==
  IF w.exc # ""
    THEN Read(w, "raise", NoSnapshot, {})
    ELSE Read(w, "ok", snapshot, {})

\* get_snapshot once the snapshot's cache metadata has been asked for.
snapshot_from_tiers(w, pl, snapshot_id, data, cached_metadata) ==
  IF cached_metadata.exc
    THEN Read(Raised(w, "RedisError"), "raise", NoSnapshot, {})
  ELSE IF cached_metadata.hit
    THEN snapshot_from_cache(
           [w EXCEPT !.nc = @ + Cardinality(DOMAIN data)], snapshot_id,
           [p \in DOMAIN data |->
              get_file(w, pl, snapshot_id, p, data[p],
                       w.nc + position(DOMAIN data, p))])
    ELSE snapshot_from_supabase(
           store_snapshot(w, pl, [id |-> snapshot_id, files |-> data]),
           [id |-> snapshot_id, files |-> data])

\* get_snapshot once the download has been answered.
snapshot_from_download(w, pl, snapshot_id, result) ==
  IF result.status = "raise"
    THEN Read(Raised(w, "StorageError"), "raise", NoSnapshot, {})
  ELSE IF result.status = "none"
    THEN Read(w, "none", NoSnapshot, {})
    ELSE snapshot_from_tiers(
           [w EXCEPT !.nc = @ + 1], pl, snapshot_id, result.data,
           get_hash_cache(w.redis_snapshot, snapshot_id, pl, w.nc + 1))

get_snapshot(w, pl, snapshot_id) ==
  snapshot_from_download(
    [w EXCEPT !.nr = @ + 1], pl, snapshot_id,
    download_file(w.snapshot_storage, snapshot_id, pl, w.nr + 1))

\* A variant of store_session_data that keeps one session record, under the
\* key of session 1, for every session.
store_session_data_one_record(w, pl, session, snapshot) ==
  LET session_data == [snapshot_id |-> snapshot.id,
                       snapshot |-> session.snapshot.id,
                       metadata |-> session.metadata]
      up == upload_file(w.session_storage, 1, session_data, pl, w.nw + 1)
  IN IF w.exc # "" THEN w
     ELSE IF up.exc
       THEN [w EXCEPT !.exc = "StorageError", !.nw = @ + 1, !.wfail = TRUE]
       ELSE [w EXCEPT !.session_storage = up.bucket, !.nw = @ + 1,
                      !.wfail = @ \/ up.failed, !.nc = @ + 1]

\* store_debugging_session after "Store the snapshot first".
store_session_data(w, pl, session, snapshot) ==
  LET session_data == [snapshot_id |-> snapshot.id,
                       snapshot |-> session.snapshot.id,
                       metadata |-> session.metadata]
      up == upload_file(w.session_storage, session.id, session_data, pl, w.nw + 1)
  IN IF w.exc # "" THEN w
     ELSE IF up.exc
       THEN [w EXCEPT !.exc = "StorageError", !.nw = @ + 1, !.wfail = TRUE]
       ELSE [w EXCEPT
               !.session_storage = up.bucket,
               !.nw = @ + 1,
               !.wfail = @ \/ up.failed,
               !.nc = @ + 1,
               !.redis_session =
                 set_hash_cache(@, session.id,
                                [id |-> session.id, snapshot_id |-> snapshot.id],
                                pl, w.nc + 1)]

\* A variant of store_debugging_session that uploads the session record
\* before the snapshot.
store_debugging_session_record_first(w, pl, session, snapshot) ==
  store_snapshot(store_session_data(w, pl, session, snapshot), pl, snapshot)

store_debugging_session(w, pl, session, snapshot) ==
  store_session_data(store_snapshot(w, pl, snapshot), pl, session, snapshot)

\* What get_debugging_session hands back.
Loaded(w, status, session) == [w |-> w, status |-> status, session |-> session]

\* The session built from the cache entry carries no metadata argument.
session_from_cache(session_id, snapshot) ==
  [id |-> session_id, snapshot |-> snapshot, metadata |-> NoMetadata]

\* "Fallback to Supabase" after "Cache in Redis for next time".
session_written_back(w, session) ==
  IF w.exc # ""
    THEN Loaded(w, "raise", NoSession)
    ELSE Loaded(w, "ok", session)

\* "Fallback to Supabase" once the session's snapshot has been asked for.
session_with_snapshot(pl, session_id, session_data, d) ==
  IF d.status # "ok"
    THEN Loaded(d.w, d.status, NoSession)
    ELSE session_written_back(
           store_debugging_session(
             d.w, pl,
             [id |-> session_id, snapshot |-> d.snapshot,
              metadata |-> session_data.metadata],
             d.snapshot),
           [id |-> session_id, snapshot |-> d.snapshot,
            metadata |-> session_data.metadata])

\* "Fallback to Supabase" once the download has been answered.
session_from_download(w, pl, session_id, result) ==
  IF result.status = "raise"
    THEN Loaded(Raised(w, "StorageError"), "raise", NoSession)
  ELSE IF result.status = "none"
    THEN Loaded(w, "none", NoSession)
    ELSE session_with_snapshot(pl, session_id, result.data,
                               get_snapshot(w, pl, result.data.snapshot_id))

session_from_supabase(w, pl, session_id) ==
  session_from_download(
    [w EXCEPT !.nr = @ + 1], pl, session_id,
    download_file(w.session_storage, session_id, pl, w.nr + 1))

\* A variant of session_from_hit that builds the session from whatever
\* get_snapshot handed back, without the `if snapshot:` test.
session_from_hit_unchecked(pl, session_id, c) ==
  IF c.status = "raise"
    THEN Loaded(c.w, "raise", NoSession)
    ELSE Loaded(c.w, "ok", session_from_cache(session_id, c.snapshot))

\* The cache-hit path once the cached snapshot_id has been looked up: c is
\* what get_snapshot handed back.
session_from_hit(pl, session_id, c) ==
  IF c.status = "raise"
    THEN Loaded(c.w, "raise", NoSession)
  ELSE IF c.status = "ok"
    THEN Loaded(c.w, "ok", session_from_cache(session_id, c.snapshot))
    ELSE session_from_supabase(c.w, pl, session_id)

\* get_debugging_session once the session's cache entry has been asked for.
session_from_tiers(w, pl, session_id, cached_metadata) ==
  IF cached_metadata.exc
    THEN Loaded(Raised(w, "RedisError"), "raise", NoSession)
  ELSE IF cached_metadata.hit
    THEN session_from_hit(pl, session_id,
                          get_snapshot(w, pl, cached_metadata.val.snapshot_id))
    ELSE session_from_supabase(w, pl, session_id)

get_debugging_session(w, pl, session_id) ==
  session_from_tiers(
    [w EXCEPT !.nc = @ + 1], pl, session_id,
    get_hash_cache(w.redis_session, session_id, pl, w.nc + 1))

(***************************************************************************)
(* Diff engine                                                             *)
(***************************************************************************)
\* A variant of calculate_diff whose modified carries the old snapshot's files.
calculate_diff_old_files(old_snapshot, new_snapshot) ==
  LET old_files == old_snapshot.files
      new_files == new_snapshot.files
      common_paths == (DOMAIN old_files) \cap (DOMAIN new_files)
      modified_paths == {path \in common_paths : old_files[path] # new_files[path]}
  IN [added |-> [path \in (DOMAIN new_files) \ (DOMAIN old_files) |-> new_files[path]],
      modified |-> [path \in modified_paths |-> old_files[path]],
      deleted |-> (DOMAIN old_files) \ (DOMAIN new_files)]

calculate_diff(old_snapshot, new_snapshot) ==
  LET old_files == old_snapshot.files
      new_files == new_snapshot.files
      old_paths == DOMAIN old_files
      new_paths == DOMAIN new_files
      added_paths == new_paths \ old_paths
      deleted_paths == old_paths \ new_paths
      common_paths == old_paths \cap new_paths
      modified_paths == {path \in common_paths : old_files[path] # new_files[path]}
  IN [added |-> [path \in added_paths |-> new_files[path]],
      modified |-> [path \in modified_paths |-> new_files[path]],
      deleted |-> deleted_paths]

\* A variant of apply_diff that skips "Apply deletions".
apply_diff_keep_deleted(base_snapshot, diff) ==
  [id |-> base_snapshot.id,
   files |-> [path \in (DOMAIN base_snapshot.files) \cup (DOMAIN diff.added) |->
                IF path \in DOMAIN diff.added THEN diff.added[path]
                ELSE IF path \in DOMAIN diff.modified THEN diff.modified[path]
                ELSE base_snapshot.files[path]]]

\* A variant of apply_diff whose "Apply modifications" takes every modified
\* entry, also one for a path that is not in the working set.
apply_diff_modified_inserts(base_snapshot, diff) ==
  LET paths == (DOMAIN base_snapshot.files) \cup (DOMAIN diff.added)
                 \cup (DOMAIN diff.modified)
  IN [id |-> base_snapshot.id,
      files |-> [path \in paths \ diff.deleted |->
                   IF path \in DOMAIN diff.modified THEN diff.modified[path]
                   ELSE IF path \in DOMAIN diff.added THEN diff.added[path]
                   ELSE base_snapshot.files[path]]]

\* Python's None.
None == [type |-> "NoneType"]

\* {**(base_snapshot.metadata or {}), "diff_applied": {...}}: a new dictionary
\* with the base's entries and the counts of the diff.
diff_applied(metadata, diff) ==
  LET base == IF metadata = None THEN [type |-> "dict"] ELSE metadata
      counts == [added |-> Cardinality(DOMAIN diff.added),
                 modified |-> Cardinality(DOMAIN diff.modified),
                 deleted |-> Cardinality(diff.deleted)]
  IN [key \in (DOMAIN base) \cup {"diff_applied"} |->
        IF key = "diff_applied" THEN counts ELSE base[key]]

\* A copy of the base files, then additions, then modifications of paths
\* that are there, then deletions of paths that are there; the base's id
\* and its metadata with the audit entry.
apply_diff(base_snapshot, diff) ==
  LET copied == base_snapshot.files
      with_added ==
        [path \in (DOMAIN copied) \cup (DOMAIN diff.added) |->
           IF path \in DOMAIN diff.added THEN diff.added[path] ELSE copied[path]]
      with_modified ==
        [path \in DOMAIN with_added |->
           IF path \in DOMAIN diff.modified THEN diff.modified[path]
           ELSE with_added[path]]
      updated_files ==
        [path \in (DOMAIN with_modified) \ diff.deleted |-> with_modified[path]]
  IN [id |-> base_snapshot.id, files |-> updated_files,
      metadata |-> diff_applied(base_snapshot.metadata, diff)]

\* A variant in which apply_diff works on base_snapshot.files itself, not on
\* a copy, and adds its audit entry to base_snapshot.metadata itself.
base_after_apply_diff_in_place(base_snapshot, diff) ==
  [base_snapshot EXCEPT !.files = apply_diff(base_snapshot, diff).files,
                        !.metadata = apply_diff(base_snapshot, diff).metadata]

\* base_snapshot as apply_diff leaves it: updated_files is a copy of its
\* files and the result's metadata a new dictionary, so no assignment of the
\* call reaches the object that was passed in.
base_after_apply_diff(base_snapshot, diff) == base_snapshot

\* CodeFile(**file_dict): the model object with the dictionary's path and
\* content, and its metadata, None when the dictionary has none.
CodeFile(file_dict) ==
  [cls |-> "CodeFile", path |-> file_dict.path, content |-> file_dict.content,
   metadata |-> IF "metadata" \in DOMAIN file_dict THEN file_dict.metadata ELSE None]

\* file.dict(): a plain dictionary of the model object's three fields.
dict(file) ==
  [path |-> file.path, content |-> file.content, metadata |-> file.metadata]

\* The metadata the extractor attached to a file of a session's snapshot;
\* the session flows carry a file as its content and do not look into it.
Extracted == [type |-> "dict", of |-> "extract_file_metadata(path, content)"]

\* The CodeFile objects of a session's snapshot, which the manager builds
\* with path = key, the payload's content and the extracted metadata.
code_files(files) ==
  [path \in DOMAIN files |->
     CodeFile([path |-> path, content |-> files[path], metadata |-> Extracted])]

\* A diff between two snapshots of a session, its files as CodeFile objects.
code_diff(diff) ==
  [added |-> code_files(diff.added), modified |-> code_files(diff.modified),
   deleted |-> diff.deleted]

\* file.dict() for every file of added and modified; deleted as it is.
serialize_diff(diff) ==
  [added |-> [path \in DOMAIN diff.added |-> dict(diff.added[path])],
   modified |-> [path \in DOMAIN diff.modified |-> dict(diff.modified[path])],
   deleted |-> diff.deleted]

\* A variant of deserialize_diff that builds each file from its path and
\* content only.
deserialize_diff_content_only(diff_dict) ==
  [added |-> [path \in DOMAIN diff_dict.added |->
                CodeFile([path |-> diff_dict.added[path].path,
                          content |-> diff_dict.added[path].content])],
   modified |-> [path \in DOMAIN diff_dict.modified |->
                   CodeFile([path |-> diff_dict.modified[path].path,
                             content |-> diff_dict.modified[path].content])],
   deleted |-> diff_dict.deleted]

\* CodeFile(**file_dict) for every entry of added and modified; deleted as
\* it is.
deserialize_diff(diff_dict) ==
  [added |-> [path \in DOMAIN diff_dict.added |-> CodeFile(diff_dict.added[path])],
   modified |-> [path \in DOMAIN diff_dict.modified |->
                   CodeFile(diff_dict.modified[path])],
   deleted |-> diff_dict.deleted]

(***************************************************************************)
(* SessionManager.  A handler's outcome: the world it leaves, the working  *)
(* set it leaves, how it ends ("ok": returns a session, "none": returns    *)
(* None, "raise": an exception leaves it) and the session it returns.      *)
(***************************************************************************)
\* The payloads' codebases: one small file, or one file whose text is a JSON
\* document.
CodeBases ==
  { ("a.py" :> "x=1"), ("a.py" :> "[1,2]") }

\* uuid4 draws: an id no stored object carries.
new_snapshot_id == Cardinality(DOMAIN snapshot_storage) + 1
new_session_id == Cardinality(DOMAIN session_storage) + 1

Outcome(w, active, status, session) ==
  [w |-> w, active |-> active, status |-> status,
   session |-> IF status = "ok" THEN session ELSE NoSession]

\* A variant of initial_entry that numbers versions from 0.
initial_entry_from_zero(snapshot) ==
  [version |-> 0, snapshot_id |-> snapshot.id, description |-> "Initial snapshot"]

initial_entry(snapshot) ==
  [version |-> 1, snapshot_id |-> snapshot.id, description |-> "Initial snapshot"]

new_session(session_id, snapshot) ==
  [id |-> session_id, snapshot |-> snapshot,
   metadata |-> [present |-> TRUE,
                 version_history |-> <<initial_entry(snapshot)>>]]

\* The end of create_session and of update_session: w is the world after
\* store_debugging_session, and the working set takes the session only if
\* the store did not raise.
session_stored(w, session) ==
  IF w.exc # ""
    THEN Outcome(w, active_sessions, "raise", NoSession)
    ELSE Outcome(w, Put(active_sessions, session.id, session), "ok", session)

session_created(session, snapshot, pl) ==
  session_stored(store_debugging_session(World, pl, session, snapshot), session)

create_session(codebase, pl) ==
  session_created(
    new_session(new_session_id, [id |-> new_snapshot_id, files |-> codebase]),
    [id |-> new_snapshot_id, files |-> codebase], pl)

\* A variant of next_version that numbers the new version by the entries
\* already kept.
next_version_stale(version_history) == Len(version_history)

\* new_snapshot.metadata["version"]
next_version(version_history) == Len(version_history) + 1

update_entry(new_snapshot, version, diff) ==
  [version |-> version, snapshot_id |-> new_snapshot.id,
   description |-> "Update with " \o ToString(Cardinality(DOMAIN diff.modified))
                     \o " modified files",
   diff |-> serialize_diff(code_diff(diff))]

append_version(version_history, entry) == Append(version_history, entry)

\* A variant of apply_update that leaves session.snapshot as it was.
apply_update_stale(session, new_snapshot, version_entry) ==
  [session EXCEPT
     !.metadata.version_history = append_version(@, version_entry)]

\* "Update session" and "Update version history": the session after them.
apply_update(session, new_snapshot, version_entry) ==
  [session EXCEPT
     !.snapshot = new_snapshot,
     !.metadata.version_history = append_version(@, version_entry)]

session_updated(w, pl, updated, new_snapshot) ==
  session_stored(store_debugging_session(w, pl, updated, new_snapshot), updated)

\* A variant of update_loaded that takes a missing session as a request to
\* create it.
update_loaded_upsert(g, new_snapshot, pl) ==
  IF g.status = "none"
    THEN session_created(new_session(new_session_id, new_snapshot), new_snapshot, pl)
  ELSE IF g.status # "ok"
    THEN Outcome(g.w, active_sessions, g.status, NoSession)
    ELSE session_updated(
           g.w, pl,
           apply_update(
             g.session, new_snapshot,
             update_entry(new_snapshot,
                          next_version(g.session.metadata.version_history),
                          calculate_diff(g.session.snapshot, new_snapshot))),
           new_snapshot)

\* update_session once get_debugging_session has answered with g.
update_loaded(g, new_snapshot, pl) ==
  IF g.status # "ok"
    THEN Outcome(g.w, active_sessions, g.status, NoSession)
  ELSE IF ~g.session.metadata.present     \* session.metadata["version_history"]
    THEN Outcome(Raised(g.w, "Error"), active_sessions, "raise", NoSession)
    ELSE session_updated(
           g.w, pl,
           apply_update(
             g.session, new_snapshot,
             update_entry(new_snapshot,
                          next_version(g.session.metadata.version_history),
                          calculate_diff(g.session.snapshot, new_snapshot))),
           new_snapshot)

update_session(session_id, codebase, pl) ==
  update_loaded(get_debugging_session(World, pl, session_id),
                [id |-> new_snapshot_id, files |-> codebase], pl)

\* get_session once storage has answered with g.
session_loaded(g, session_id) ==
  IF g.status = "ok"
    THEN Outcome(g.w, Put(active_sessions, session_id, g.session), "ok", g.session)
    ELSE Outcome(g.w, active_sessions, g.status, NoSession)

\* A variant of get_session that asks storage whatever the working set holds.
get_session_always_loads(session_id, pl) ==
  session_loaded(get_debugging_session(World, pl, session_id), session_id)

get_session(session_id, pl) ==
  IF session_id \in DOMAIN active_sessions
    THEN Outcome(World, active_sessions, "ok", active_sessions[session_id])
    ELSE session_loaded(get_debugging_session(World, pl, session_id), session_id)

revert_entry(snapshot, version, reverted_from) ==
  [version |-> version, snapshot_id |-> snapshot.id,
   description |-> "Reverted to version " \o ToString(reverted_from),
   reverted_from |-> reverted_from]

\* "Update session": the session after the revert's assignments.
apply_revert(session, snapshot, new_version) ==
  [session EXCEPT
     !.snapshot = snapshot,
     !.metadata.version_history = append_version(@, new_version)]

\* The end of revert_to_version: w is the world after
\* store_debugging_session.  The session revert_to_version changes is the
\* object get_session returned, which the working set holds: the change is
\* in the working set as soon as it is made, whether or not the store that
\* follows succeeds.
revert_stored(w, active, reverted) ==
  IF w.exc # ""
    THEN Outcome(w, Put(active, reverted.id, reverted), "raise", NoSession)
    ELSE Outcome(w, Put(active, reverted.id, reverted), "ok", reverted)

session_reverted(w, pl, active, reverted, snapshot) ==
  revert_stored(store_debugging_session(w, pl, reverted, snapshot),
                active, reverted)

\* revert_to_version once the target snapshot has been asked for.
revert_with_snapshot(g, version, pl, s) ==
  IF s.status # "ok"
    THEN Outcome(s.w, g.active, s.status, NoSession)
    ELSE session_reverted(
           s.w, pl, g.active,
           apply_revert(
             g.session, s.snapshot,
             revert_entry(s.snapshot,
                          Len(g.session.metadata.version_history) + 1,
                          version)),
           s.snapshot)

\* revert_to_version once get_session has answered with g.
revert_loaded(g, version, pl) ==
  IF g.status # "ok"
    THEN Outcome(g.w, g.active, g.status, NoSession)
  ELSE IF ~g.session.metadata.present     \* session.metadata["version_history"]
    THEN Outcome(Raised(g.w, "Error"), g.active, "raise", NoSession)
  ELSE IF version < 1 \/ version > Len(g.session.metadata.version_history)
    THEN Outcome(g.w, g.active, "none", NoSession)
    ELSE revert_with_snapshot(
           g, version, pl,
           get_snapshot(g.w, pl,
                        g.session.metadata.version_history[version].snapshot_id))

revert_to_version(session_id, version, pl) ==
  revert_loaded(get_session(session_id, pl), version, pl)

(***************************************************************************)
(* Actions.  An action binds the outcome r of its handler and commits it.  *)
(***************************************************************************)
\* The fault of plan pl happened during the call that left world w: the
\* call got as far as the command the plan fails.
Struck(pl, w) ==
  CASE ~pl.cache -> w.nc > 0
    [] pl.kind = "cerr" -> pl.at <= w.nc
    [] pl.kind = "rerr" -> pl.at <= w.nr
    [] pl.kind \in {"werr", "w409"} -> w.wfail
    [] OTHER -> FALSE

\* A call runs under a single-call fault only while the fault budget lasts,
\* and under a plan only if it meets the plan's fault.
Budget(pl) == pl.kind # "none" => faults < MaxFaults

Faulty(pl, w) ==
  /\ pl # NoFault => Struck(pl, w)
  /\ faults' = IF pl.kind # "none" THEN faults + 1 ELSE faults

CommitWorld(w) ==
  /\ snapshot_storage' = w.snapshot_storage
  /\ session_storage' = w.session_storage
  /\ redis_snapshot' = w.redis_snapshot
  /\ redis_file' = w.redis_file
  /\ redis_session' = w.redis_session
  /\ UNCHANGED <<redis_diff, calls, algebra, extraction>>

Commit(r) ==
  /\ CommitWorld(r.w)
  /\ active_sessions' = r.active

\* The longest version_history kept for a session, durable or in the working set.
HistoryLen(session_id) ==
  LET a == IF session_id \in DOMAIN active_sessions
             THEN Len(active_sessions[session_id].metadata.version_history) ELSE 0
      d == IF session_id \in DOMAIN session_storage
             THEN Len(session_storage[session_id].metadata.version_history) ELSE 0
  IN IF a > d THEN a ELSE d

CreateSession(pl, ids) ==
  /\ new_snapshot_id \in ids
  /\ new_session_id \in SessionIds
  /\ Budget(pl)
  /\ \E codebase \in CodeBases :
       \E r \in {create_session(codebase, pl)} : Faulty(pl, r.w) /\ Commit(r)
  /\ UNCHANGED n_updates

UpdateSession(pl, ids) ==
  /\ new_snapshot_id \in ids
  /\ Budget(pl)
  /\ \E session_id \in SessionIds, codebase \in CodeBases :
       /\ HistoryLen(session_id) < MaxHistory
       /\ \E r \in {update_session(session_id, codebase, pl)} :
            /\ Faulty(pl, r.w)
            /\ Commit(r)
            /\ n_updates' = IF r.status = "ok"
                              THEN [n_updates EXCEPT ![session_id] = @ + 1]
                              ELSE n_updates

GetSession(pl) ==
  /\ Budget(pl)
  /\ \E session_id \in SessionIds :
       \E r \in {get_session(session_id, pl)} : Faulty(pl, r.w) /\ Commit(r)
  /\ UNCHANGED n_updates

RevertToVersion(pl) ==
  /\ Budget(pl)
  /\ \E session_id \in SessionIds :
     \E version \in 0..(HistoryLen(session_id) + 1) :
       /\ HistoryLen(session_id) < MaxHistory
       /\ \E r \in {revert_to_version(session_id, version, pl)} :
            Faulty(pl, r.w) /\ Commit(r)
  /\ UNCHANGED n_updates

\* Every request is served by a SessionManager of its own, built with an
\* empty working set.
NewManager ==
  /\ active_sessions # Empty
  /\ active_sessions' = Empty
  /\ UNCHANGED <<snapshot_storage, session_storage, redis_snapshot, redis_file,
                 redis_session, redis_diff, calls, algebra, extraction, n_updates, faults>>

\* Redis runs with maxmemory-policy allkeys-lru: any key may be evicted.
EvictSnapshot ==
  /\ \E k \in DOMAIN redis_snapshot : redis_snapshot' = Drop(redis_snapshot, k)
  /\ UNCHANGED <<snapshot_storage, session_storage, redis_file, redis_session,
                 redis_diff, active_sessions, calls, algebra, extraction, n_updates, faults>>

EvictFile ==
  /\ \E k \in DOMAIN redis_file : redis_file' = Drop(redis_file, k)
  /\ UNCHANGED <<snapshot_storage, session_storage, redis_snapshot, redis_session,
                 redis_diff, active_sessions, calls, algebra, extraction, n_updates, faults>>

EvictSession ==
  /\ \E k \in DOMAIN redis_session : redis_session' = Drop(redis_session, k)
  /\ UNCHANGED <<snapshot_storage, session_storage, redis_snapshot, redis_file,
                 redis_diff, active_sessions, calls, algebra, extraction, n_updates, faults>>

\* The update_session calls that may be in flight at once, and a call that
\* has not been made.
Calls == {1, 2}
NotCalled ==
  [pc |-> "start",
   cached_metadata |-> [hit |-> FALSE, exc |-> FALSE, val |-> Empty],
   session |-> NoSession,
   new_snapshot |-> NoSnapshot]

\* No diff computation under way.
NoDiff == [added |-> Empty, modified |-> Empty, deleted |-> {}]
NoAlgebra ==
  [pc |-> "idle", old_snapshot |-> NoSnapshot, new_snapshot |-> NoSnapshot,
   diff |-> NoDiff, applied |-> NoSnapshot, diff_dict |-> NoDiff,
   restored |-> NoDiff]

\* What a call that has not run gave.
NoExtraction ==
  [pc |-> "idle", file_path |-> [root |-> "", ext |-> ""], content |-> [text |-> ""],
   now |-> 0, first |-> [status |-> "none"], second |-> [status |-> "none"]]

Init ==
  /\ snapshot_storage = Empty
  /\ session_storage = Empty
  /\ redis_snapshot = Empty
  /\ redis_file = Empty
  /\ redis_session = Empty
  /\ redis_diff = Empty
  /\ calls = [c \in Calls |-> NotCalled]
  /\ algebra = NoAlgebra
  /\ extraction = NoExtraction
  /\ active_sessions = Empty
  /\ n_updates = [session_id \in SessionIds |-> 0]
  /\ faults = 0

Next ==
  \/ \E pl \in Plans : CreateSession(pl, SnapshotIds)
  \/ \E pl \in Plans : UpdateSession(pl, SnapshotIds)
  \/ \E pl \in Plans : GetSession(pl)
  \/ \E pl \in Plans : RevertToVersion(pl)
  \/ NewManager
  \/ EvictSnapshot
  \/ EvictFile
  \/ EvictSession

Spec == Init /\ [][Next]_vars

\* One manager, no failures: sessions are created and updated one call after
\* another while cache keys come and go.
NextSeq ==
  \/ CreateSession(NoFault, SeqSnapshotIds)
  \/ UpdateSession(NoFault, SeqSnapshotIds)
  \/ EvictSnapshot
  \/ EvictFile
  \/ EvictSession

SpecSeq == Init /\ [][NextSeq]_vars

(***************************************************************************)
(* The storage manager on its own: callers store snapshots under ids of    *)
(* their choosing (an id may be stored again with other files, as the      *)
(* result of apply_diff is) and read them back.                            *)
(***************************************************************************)
StoreIds == {1}
StorePaths == {"a.py", "b.txt"}
StoreContents == {"x=1", "[1,2]", "7", "", BIG}
StoreFiles ==
  UNION {[paths -> StoreContents] : paths \in SUBSET StorePaths}
StorePlans ==
  {NoFault, CacheDown} \cup
  [cache : {TRUE}, kind : {"cerr", "werr", "w409", "rerr"}, at : {1, 2}]

StoreSnapshot(pl) ==
  /\ Budget(pl)
  /\ \E id \in StoreIds, files \in StoreFiles :
       \E w \in {store_snapshot(World, pl, [id |-> id, files |-> files])} :
         Faulty(pl, w) /\ CommitWorld(w)
  /\ UNCHANGED <<active_sessions, n_updates>>

GetSnapshot(pl) ==
  /\ Budget(pl)
  /\ \E id \in StoreIds :
       \E r \in {get_snapshot(World, pl, id)} : Faulty(pl, r.w) /\ CommitWorld(r.w)
  /\ UNCHANGED <<active_sessions, n_updates>>

NextStore ==
  \/ \E pl \in StorePlans : StoreSnapshot(pl)
  \/ \E pl \in StorePlans : GetSnapshot(pl)
  \/ EvictSnapshot
  \/ EvictFile

SpecStore == Init /\ [][NextStore]_vars

(***************************************************************************)
(* Properties                                                              *)
(***************************************************************************)
Last(h) == h[Len(h)]
IsPrefix(a, b) == Len(a) <= Len(b) /\ SubSeq(b, 1, Len(a)) = a
Numbered(h) == \A i \in 1..Len(h) : h[i].version = i
Persisted(session_id) == session_storage[session_id].metadata.version_history

\* C1: after create_session and N update_session calls that returned a
\* session, made one after another through one manager with no failure, the
\* session's version_history has N + 1 entries and its i-th entry carries
\* version i, in the persisted record and in the manager's working set.
C1_SequentialVersions ==
  \A session_id \in DOMAIN session_storage :
    /\ Len(Persisted(session_id)) = n_updates[session_id] + 1
    /\ Numbered(Persisted(session_id))
    /\ session_id \in DOMAIN active_sessions =>
         active_sessions[session_id].metadata.version_history = Persisted(session_id)

C1_TwoUpdates ==
  \E session_id \in DOMAIN session_storage :
    /\ n_updates[session_id] = 2
    /\ Len(Persisted(session_id)) = 3
    /\ session_id \in DOMAIN active_sessions

\* C2: after a successful create_session, update_session or revert_to_version
\* the session's snapshot is the one its last version_history entry names:
\* in the session the call returned (the one the working set holds) and in
\* the persisted record.
C2_SnapshotIsLastEntry ==
  /\ \A session_id \in DOMAIN session_storage :
       LET data == session_storage[session_id]
       IN /\ data.snapshot_id = Last(data.metadata.version_history).snapshot_id
          /\ data.snapshot = Last(data.metadata.version_history).snapshot_id
  /\ \A session_id \in DOMAIN active_sessions :
       LET session == active_sessions[session_id]
       IN session.metadata.present =>
            session.snapshot.id = Last(session.metadata.version_history).snapshot_id

C2_RevertedToOlderSnapshot ==
  \E session_id \in (DOMAIN session_storage) \cap (DOMAIN active_sessions) :
    LET h == Persisted(session_id)
    IN /\ Len(h) >= 3
       /\ "reverted_from" \in DOMAIN Last(h)
       /\ Last(h).snapshot_id # h[Len(h) - 1].snapshot_id
       /\ active_sessions[session_id].metadata.version_history = h

\* C3: a revert_to_version(id, v) with a valid v that returns a session has
\* appended exactly one entry to the history it found; that entry carries the
\* next version number, reverted_from = v, no diff and the snapshot_id of
\* entry v, and the returned session's snapshot has that id and the file
\* contents stored for that snapshot.
C3_RevertAppendsEntry ==
  \A session_id \in SessionIds, version \in 1..MaxHistory, pl \in {NoFault, CacheDown} :
    LET before == get_session(session_id, pl).session.metadata.version_history
        r == revert_to_version(session_id, version, pl)
        after == r.session.metadata.version_history
    IN r.status = "ok" =>
         /\ Len(after) = Len(before) + 1
         /\ IsPrefix(before, after)
         /\ Last(after).version = Len(before) + 1
         /\ Last(after).reverted_from = version
         /\ "diff" \notin DOMAIN Last(after)
         /\ Last(after).snapshot_id = before[version].snapshot_id
         /\ r.session.snapshot.id = before[version].snapshot_id
         /\ r.session.snapshot.files = snapshot_storage[before[version].snapshot_id]

\* C4: version_history is append-only: over every step, each entry a session's
\* history had before the step is there after it, unchanged and at the same
\* index, in the persisted record and in the session the working set holds;
\* the history never gets shorter and revert_to_version never truncates it.
C4_AppendOnly ==
  [][/\ \A session_id \in DOMAIN session_storage :
          /\ session_id \in DOMAIN session_storage'
          /\ IsPrefix(Persisted(session_id),
                      session_storage'[session_id].metadata.version_history)
     /\ \A session_id \in (DOMAIN active_sessions) \cap (DOMAIN active_sessions') :
          (/\ active_sessions[session_id].metadata.present
           /\ active_sessions'[session_id].metadata.present)
          => IsPrefix(active_sessions[session_id].metadata.version_history,
                      active_sessions'[session_id].metadata.version_history)]_vars

\* C5: revert_to_version(id, v) with v below 1 or above the length of the
\* session's history returns None, leaves the session's history and snapshot
\* as they were and writes nothing to the cache or the durable store.
C5_OutOfRangeWritesNothing ==
  \A session_id \in DOMAIN session_storage, version \in 0..(MaxHistory + 1) :
    LET r == revert_to_version(session_id, version, NoFault)
    IN (version < 1 \/ version > HistoryLen(session_id)) =>
         /\ r.status = "none"
         /\ r.w.nw = 0
         /\ r.w.snapshot_storage = snapshot_storage
         /\ r.w.session_storage = session_storage
         /\ r.w.redis_snapshot = redis_snapshot
         /\ r.w.redis_file = redis_file
         /\ r.w.redis_session = redis_session

\* C6: store_snapshot(S) followed by get_snapshot(S.id) returns a snapshot
\* with the paths of S and, for every path, the content S has for it, whether
\* the file is below the 512 KiB limit or not and whichever tier serves it.
C6_StoreThenGet ==
  \A id \in StoreIds, files \in StoreFiles, stored \in {NoFault, CacheDown},
     read \in {NoFault, CacheDown} :
    LET w1 == store_snapshot(World, stored, [id |-> id, files |-> files])
        r == get_snapshot([w1 EXCEPT !.nw = 0, !.nr = 0, !.nc = 0], read, id)
    IN w1.exc = "" =>
         /\ r.status = "ok"
         /\ DOMAIN r.snapshot.files = DOMAIN files
         /\ \A path \in DOMAIN files : r.snapshot.files[path] = files[path]

\* C7: in every state reached by storing snapshots (an id may be stored
\* again) and reading them, a file that get_snapshot(id) serves from the
\* cache has the content the durable store's copy of snapshot id has for
\* that path.
C7_FileCacheNeverStaleWrong ==
  \A id \in DOMAIN snapshot_storage :
    LET r == get_snapshot(World, NoFault, id)
    IN r.status = "ok" =>
         \A path \in r.cached : r.snapshot.files[path] = snapshot_storage[id][path]

\* C8: in every reachable state a session entry of the cache names the
\* snapshot the durable record of that session names, also after cache
\* writes that failed and were swallowed and after evictions.
C8_SessionCacheNeverStaleWrong ==
  \A session_id \in DOMAIN redis_session :
    /\ session_id \in DOMAIN session_storage
    /\ redis_session[session_id].snapshot_id = session_storage[session_id].snapshot_id

WorldColdCache ==
  [World EXCEPT !.redis_snapshot = Empty, !.redis_file = Empty, !.redis_session = Empty]

SameDurable(a, b) ==
  /\ a.snapshot_storage = b.snapshot_storage
  /\ a.session_storage = b.session_storage

\* C9: a Redis command that fails during store_snapshot, get_snapshot,
\* store_debugging_session or get_debugging_session does not fail the call:
\* the call ends as it would with an empty cache, with the same result and
\* the same durable store.
C9_CacheFailureDegrades ==
  \A pl \in CachePlans :
    /\ \A id \in SnapshotIds :
         LET f == get_snapshot(World, pl, id)
             e == get_snapshot(WorldColdCache, NoFault, id)
         IN Struck(pl, f.w) =>
              /\ f.status # "raise"
              /\ f.status = e.status
              /\ f.snapshot = e.snapshot
              /\ SameDurable(f.w, e.w)
    /\ \A session_id \in SessionIds :
         LET f == get_debugging_session(World, pl, session_id)
             e == get_debugging_session(WorldColdCache, NoFault, session_id)
         IN Struck(pl, f.w) =>
              /\ f.status # "raise"
              /\ f.status = e.status
              /\ f.session = e.session
              /\ SameDurable(f.w, e.w)
    /\ \A id \in SnapshotIds, codebase \in CodeBases :
         LET f == store_snapshot(World, pl, [id |-> id, files |-> codebase])
             e == store_snapshot(WorldColdCache, NoFault, [id |-> id, files |-> codebase])
         IN Struck(pl, f) => f.exc = "" /\ SameDurable(f, e)
    /\ \A session_id \in DOMAIN active_sessions :
         LET session == active_sessions[session_id]
             f == store_debugging_session(World, pl, session, session.snapshot)
             e == store_debugging_session(WorldColdCache, NoFault, session, session.snapshot)
         IN Struck(pl, f) => f.exc = "" /\ SameDurable(f, e)

\* C10: when a durable-store write fails during create_session or
\* update_session the call raises (it returns neither None nor a session) and
\* the manager's working set is left as it was.
C10_WriteFailurePropagates ==
  \A pl \in {q \in Plans : q.kind \in {"werr", "w409"}} :
    /\ \A codebase \in CodeBases :
         LET r == create_session(codebase, pl)
         IN r.w.wfail => r.status = "raise" /\ r.active = active_sessions
    /\ \A session_id \in SessionIds, codebase \in CodeBases :
         LET r == update_session(session_id, codebase, pl)
         IN r.w.wfail => r.status = "raise" /\ r.active = active_sessions

\* The world a call left, as the next call finds it.
Fresh(w) == [w EXCEPT !.nw = 0, !.nr = 0, !.nc = 0, !.wfail = FALSE]

\* C11: after store_snapshot(S) with Redis answering, a file of S whose
\* content is below 524288 bytes has a cache file entry holding that content,
\* and a file of 524288 bytes or more has no cache file entry and is not
\* served from the cache by get_snapshot.
C11_MirrorsBelowLimit ==
  \A id \in StoreIds, files \in StoreFiles :
    LET w1 == store_snapshot(World, NoFault, [id |-> id, files |-> files])
        r == get_snapshot(Fresh(w1), NoFault, id)
    IN \A path \in DOMAIN files :
         IF content_size(files[path]) < CACHE_LIMIT
           THEN /\ <<id, path>> \in DOMAIN w1.redis_file
                /\ w1.redis_file[<<id, path>>].content = files[path]
           ELSE /\ <<id, path>> \notin DOMAIN w1.redis_file
                /\ path \notin r.cached

\* SupabaseStorage.delete_file: the object is removed from the bucket; the
\* cache is not told.
delete_file(bucket, path) == Drop(bucket, path)

DeleteSnapshotFile ==
  /\ \E id \in DOMAIN snapshot_storage :
       snapshot_storage' = delete_file(snapshot_storage, id)
  /\ UNCHANGED <<session_storage, redis_snapshot, redis_file, redis_session,
                 redis_diff, active_sessions, calls, algebra, extraction, n_updates, faults>>

\* The storage manager with durable objects that may be deleted under it.
NextStoreDelete ==
  \/ NextStore
  \/ DeleteSnapshotFile

SpecStoreDelete == Init /\ [][NextStoreDelete]_vars

\* C12: get_snapshot(id) returns None when the durable store has no
\* snapshot id, whatever the cache holds for id, and returns a snapshot when
\* the durable store has one.
C12_DurableStoreDecides ==
  \A id \in StoreIds :
    LET r == get_snapshot(World, NoFault, id)
    IN IF id \in DOMAIN snapshot_storage
         THEN r.status = "ok" /\ r.snapshot.id = id
         ELSE r.status = "none"

\* Sessions created and updated with Redis answering or down for the whole
\* call, while cache keys are evicted and snapshot objects are deleted from
\* the durable store.
ResolvePlans == {NoFault, CacheDown}

NextResolve ==
  \/ \E pl \in ResolvePlans : CreateSession(pl, SnapshotIds)
  \/ \E pl \in ResolvePlans : UpdateSession(pl, SnapshotIds)
  \/ EvictSnapshot
  \/ EvictFile
  \/ EvictSession
  \/ DeleteSnapshotFile

SpecResolve == Init /\ [][NextResolve]_vars

\* The snapshot ids recorded for a session: in its cache entry and in its
\* durable record.
recorded_snapshot_ids(session_id) ==
  {redis_session[k].snapshot_id : k \in {session_id} \cap DOMAIN redis_session}
    \cup
  {session_storage[k].snapshot_id : k \in {session_id} \cap DOMAIN session_storage}

\* C13: get_debugging_session(id) returns a session only with its snapshot
\* resolved: the returned session's snapshot is what get_snapshot gives for a
\* snapshot_id recorded for the session (in its cache entry or its durable
\* record), and when get_snapshot retrieves none of the recorded snapshots
\* the result is None.
C13_SessionOnlyWithSnapshot ==
  \A session_id \in SessionIds :
    LET r == get_debugging_session(World, NoFault, session_id)
    IN /\ r.status = "ok" =>
            /\ r.session.snapshot.id \in recorded_snapshot_ids(session_id)
            /\ r.session.snapshot.id \in DOMAIN snapshot_storage
            /\ r.session.snapshot =
                 get_snapshot(World, NoFault, r.session.snapshot.id).snapshot
       /\ (\A id \in recorded_snapshot_ids(session_id) :
             get_snapshot(World, NoFault, id).status = "none")
            => r.status = "none"

\* A session whose cache entry and durable record are both there while the
\* snapshot they name is gone from the durable store: the read is a miss.
C13_SnapshotGone ==
  \E session_id \in (DOMAIN redis_session) \cap (DOMAIN session_storage) :
    /\ recorded_snapshot_ids(session_id) \cap DOMAIN snapshot_storage = {}
    /\ \E id \in recorded_snapshot_ids(session_id) : id \in DOMAIN redis_snapshot
    /\ get_debugging_session(World, NoFault, session_id).status = "none"

(***************************************************************************)
(* Diffs in the cache: store_diff / get_diff over RedisClient.set_cache /  *)
(* get_cache.                                                              *)
(***************************************************************************)
COMPRESSION_THRESHOLD == 1024

DiffIds == {1, 2}
DiffContents == {"x=1", BIG}
DiffSnapshots ==
  {[id |-> 1, files |-> files] :
     files \in UNION {[paths -> DiffContents] : paths \in SUBSET {"a.py"}}}

\* The mappings callers store: the empty mapping and serialized diffs.
DiffData ==
  {Empty} \cup
  {serialize_diff(code_diff(calculate_diff(A, B))) :
     A \in DiffSnapshots, B \in DiffSnapshots}

\* Bytes the files of a serialized diff take in its JSON text.
RECURSIVE files_json_size(_)
files_json_size(files) ==
  IF DOMAIN files = {} THEN 0
  ELSE LET p == CHOOSE q \in DOMAIN files : TRUE
       IN 32 + content_size(files[p].content) + files_json_size(Drop(files, p))

\* json.dumps(value): the text, named by the value it encodes, and its length.
json_dumps(value) ==
  [text |-> value,
   size |-> IF value = Empty THEN 2
            ELSE 44 + files_json_size(value.added) + files_json_size(value.modified)
                    + 12 * Cardinality(value.deleted)]

\* _compress: zlib above the threshold, the plain bytes otherwise.
compress(data) == [zlib |-> data.size > COMPRESSION_THRESHOLD, data |-> data]

set_cache(cache, key, value, pl, n) ==
  IF redis_ok(pl, n) THEN Put(cache, key, compress(json_dumps(value))) ELSE cache

\* get_cache: GET through a client built with decode_responses=True, which
\* decodes the stored bytes as UTF-8 before the method sees them: zlib
\* output (0x78 0x9c ...) is no UTF-8 and the UnicodeDecodeError is no
\* RedisError.  Plain bytes go through _decompress unchanged and json.loads.
get_cache(cache, key, pl, n) ==
  IF ~redis_ok(pl, n) \/ key \notin DOMAIN cache
    THEN [status |-> "none", val |-> Empty]
  ELSE IF cache[key].zlib
    THEN [status |-> "raise", val |-> Empty]
    ELSE [status |-> "ok", val |-> cache[key].data.text]

store_diff(cache, base_id, target_id, diff, pl) ==
  set_cache(cache, <<base_id, target_id>>, diff, pl, 1)

\* return result if result and len(result) > 0 else None
get_diff(cache, base_id, target_id, pl) ==
  LET result == get_cache(cache, <<base_id, target_id>>, pl, 1)
  IN IF result.status = "ok" /\ result.val = Empty
       THEN [status |-> "none", val |-> Empty]
       ELSE result

DiffPlans == {NoFault, CacheDown}

StoreDiff(pl) ==
  /\ \E base_id \in DiffIds, target_id \in DiffIds, diff \in DiffData :
       redis_diff' = store_diff(redis_diff, base_id, target_id, diff, pl)
  /\ UNCHANGED <<snapshot_storage, session_storage, redis_snapshot, redis_file,
                 redis_session, active_sessions, calls, algebra, extraction, n_updates, faults>>

\* get_diff changes nothing, whatever it returns.
GetDiff(pl) ==
  /\ \E base_id \in DiffIds, target_id \in DiffIds :
       get_diff(redis_diff, base_id, target_id, pl).status \in {"ok", "none", "raise"}
  /\ UNCHANGED vars

EvictDiff ==
  /\ \E k \in DOMAIN redis_diff : redis_diff' = Drop(redis_diff, k)
  /\ UNCHANGED <<snapshot_storage, session_storage, redis_snapshot, redis_file,
                 redis_session, active_sessions, calls, algebra, extraction, n_updates, faults>>

NextDiff ==
  \/ \E pl \in DiffPlans : StoreDiff(pl)
  \/ \E pl \in DiffPlans : GetDiff(pl)
  \/ EvictDiff

SpecDiff == Init /\ [][NextDiff]_vars

\* C14: store_diff(b, t, d) with a non-empty mapping d followed by
\* get_diff(b, t) returns a mapping equal to d; get_diff for a pair that was
\* never stored, or whose stored record is empty, returns None and does not
\* raise.
C14_DiffRoundTrip ==
  \A base_id \in DiffIds, target_id \in DiffIds :
    /\ \A diff \in DiffData \ {Empty} :
         LET r == get_diff(store_diff(redis_diff, base_id, target_id, diff, NoFault),
                           base_id, target_id, NoFault)
         IN r.status = "ok" /\ r.val = diff
    /\ <<base_id, target_id>> \notin DOMAIN redis_diff =>
         get_diff(redis_diff, base_id, target_id, NoFault).status = "none"
    /\ get_diff(store_diff(redis_diff, base_id, target_id, Empty, NoFault),
                base_id, target_id, NoFault).status = "none"

\* Session ids a caller may name: those sessions are created under, and one
\* no session is ever created under.
CallerSessionIds == SessionIds \cup {2}

\* The session ids with a stored session, in the durable store or the cache.
stored_session_ids == (DOMAIN session_storage) \cup (DOMAIN redis_session)

\* C15: update_session(id, payload) for an id with no stored session returns
\* None, does not raise and changes nothing: no upload is made, the durable
\* store, the cache and the working set are as before.
C15_UpdateUnknownSession ==
  \A session_id \in CallerSessionIds \ stored_session_ids,
     codebase \in CodeBases, pl \in {NoFault, CacheDown} :
    LET r == update_session(session_id, codebase, pl)
    IN /\ r.status = "none"
       /\ r.w.nw = 0
       /\ r.w.snapshot_storage = snapshot_storage
       /\ r.w.session_storage = session_storage
       /\ r.w.redis_snapshot = redis_snapshot
       /\ r.w.redis_file = redis_file
       /\ r.w.redis_session = redis_session
       /\ r.active = active_sessions

\* update_session names an unknown id while another session is stored,
\* cached and in the working set.
C15_UnknownBesideKnown ==
  /\ 1 \in (DOMAIN session_storage) \cap (DOMAIN redis_session) \cap (DOMAIN active_sessions)
  /\ 2 \notin stored_session_ids
  /\ \E codebase \in CodeBases : update_session(2, codebase, NoFault).status = "none"

\* Payloads of an update: the codebases sessions are created from, the same
\* JSON document spelled otherwise, another path, both paths, no file at all.
UpdateCodeBases ==
  CodeBases \cup
  { ("a.py" :> "[1, 2]"), ("a.py" :> "x=2"), ("b.txt" :> "x=1"),
    ("a.py" :> "x=1") @@ ("b.txt" :> "x=2"), Empty }

\* The session's current snapshot as the durable store holds it.
current_snapshot(session_id) ==
  [id |-> session_storage[session_id].snapshot_id,
   files |-> snapshot_storage[session_storage[session_id].snapshot_id]]

\* C16: an update_session(id, payload) that returns a session has made the
\* payload the whole current snapshot (exactly its paths and contents), and
\* the entry it appended embeds serialize_diff(calculate_diff(previous
\* current snapshot, new snapshot)): every path of the previous snapshot that
\* the payload lacks is in deleted, every path whose content changed is in
\* modified.
C16_UpdateReplaces ==
  \A session_id \in DOMAIN session_storage, codebase \in UpdateCodeBases,
     pl \in {NoFault, CacheDown} :
    LET r == update_session(session_id, codebase, pl)
        previous == current_snapshot(session_id)
        entry == Last(r.session.metadata.version_history)
    IN r.status = "ok" =>
         /\ r.session.snapshot.files = codebase
         /\ entry.diff =
              serialize_diff(code_diff(calculate_diff(previous, r.session.snapshot)))
         /\ \A path \in (DOMAIN previous.files) \ (DOMAIN codebase) :
              path \in entry.diff.deleted
         /\ \A path \in (DOMAIN previous.files) \cap (DOMAIN codebase) :
              previous.files[path] # codebase[path]
                => path \in DOMAIN entry.diff.modified

\* get_session on the stores and the working set that outcome r left.
get_session_after(r, session_id) ==
  IF session_id \in DOMAIN r.active
    THEN Loaded(Fresh(r.w), "ok", r.active[session_id])
    ELSE get_debugging_session(Fresh(r.w), NoFault, session_id)

\* The session a read returned has no entry for snapshot_id and has the
\* current snapshot current_id.
Unappended(read, snapshot_id, current_id) ==
  read.status = "ok" =>
    /\ \A i \in 1..Len(read.session.metadata.version_history) :
         read.session.metadata.version_history[i].snapshot_id # snapshot_id
    /\ read.session.snapshot.id = current_id

\* C17: after an update_session that did not return successfully, neither
\* get_session nor get_debugging_session yields a version_history with the
\* new entry, and the session's current snapshot as either of them shows it
\* is the one the old last entry names.
C17_FailedUpdateInvisible ==
  \A session_id \in DOMAIN session_storage, codebase \in CodeBases, pl \in Plans :
    LET r == update_session(session_id, codebase, pl)
        old == Last(Persisted(session_id))
    IN r.status = "raise" =>
         /\ Unappended(get_session_after(r, session_id), new_snapshot_id,
                       old.snapshot_id)
         /\ Unappended(get_debugging_session(Fresh(r.w), NoFault, session_id),
                       new_snapshot_id, old.snapshot_id)

(***************************************************************************)
(* update_session with its storage calls as suspension points: two calls   *)
(* on one session id, each taking its storage calls one at a time while    *)
(* the other may take its own in between.  Each call is served by a        *)
(* manager of its own, so the working set of one is not the other's.       *)
(***************************************************************************)
RaceSessionId == 1

\* uuid4 draws of the calls: ids no other call and no stored object carries.
race_snapshot_id(c) == 1 + c

CommitStores(w) ==
  /\ snapshot_storage' = w.snapshot_storage
  /\ session_storage' = w.session_storage
  /\ redis_snapshot' = w.redis_snapshot
  /\ redis_file' = w.redis_file
  /\ redis_session' = w.redis_session
  /\ UNCHANGED <<redis_diff, active_sessions, algebra, extraction, n_updates, faults>>

\* get_debugging_session: "Check Redis cache first".
CallLookup(c) ==
  /\ calls[c].pc = "start"
  /\ calls' = [calls EXCEPT
       ![c].pc = "looked",
       ![c].cached_metadata =
         get_hash_cache(redis_session, RaceSessionId, NoFault, 1)]
  /\ UNCHANGED <<snapshot_storage, session_storage, redis_snapshot, redis_file,
                 redis_session, redis_diff, active_sessions, algebra, extraction, n_updates, faults>>

\* The session a call holds after "Update session" and "Update version
\* history".
call_updated(session, new_snapshot) ==
  apply_update(
    session, new_snapshot,
    update_entry(new_snapshot,
                 next_version(session.metadata.version_history),
                 calculate_diff(session.snapshot, new_snapshot)))

\* The rest of get_debugging_session, then update_session up to its store:
\* None for no session, an exception for a session without version_history.
CallLoad(c) ==
  /\ calls[c].pc = "looked"
  /\ \E codebase \in CodeBases :
     \E g \in {session_from_tiers([World EXCEPT !.nc = 1], NoFault,
                                  RaceSessionId, calls[c].cached_metadata)} :
       /\ CommitStores(g.w)
       /\ calls' = [calls EXCEPT ![c] =
            IF g.status # "ok"
              THEN [@ EXCEPT !.pc = IF g.status = "none" THEN "none" ELSE "failed"]
            ELSE IF ~g.session.metadata.present
              THEN [@ EXCEPT !.pc = "failed"]
              ELSE [@ EXCEPT
                      !.pc = "loaded",
                      !.new_snapshot = [id |-> race_snapshot_id(c), files |-> codebase],
                      !.session =
                        call_updated(g.session,
                                     [id |-> race_snapshot_id(c), files |-> codebase])]]

\* store_debugging_session: "Store the snapshot first".
CallStoreSnapshot(c) ==
  /\ calls[c].pc = "loaded"
  /\ \E w \in {store_snapshot(World, NoFault, calls[c].new_snapshot)} :
       /\ CommitStores(w)
       /\ calls' = [calls EXCEPT ![c].pc = IF w.exc # "" THEN "failed" ELSE "snapshot_stored"]

\* store_debugging_session: the session record and its cache entry; then
\* update_session returns the session.
CallStoreSession(c) ==
  /\ calls[c].pc = "snapshot_stored"
  /\ \E w \in {store_session_data(World, NoFault, calls[c].session,
                                  calls[c].new_snapshot)} :
       /\ CommitStores(w)
       /\ calls' = [calls EXCEPT ![c].pc = IF w.exc # "" THEN "failed" ELSE "returned"]

NextRace ==
  \/ CreateSession(NoFault, SnapshotIds)
  \/ EvictSnapshot
  \/ EvictFile
  \/ EvictSession
  \/ \E c \in Calls : CallLookup(c)
  \/ \E c \in Calls : CallLoad(c)
  \/ \E c \in Calls : CallStoreSnapshot(c)
  \/ \E c \in Calls : CallStoreSession(c)

SpecRace == Init /\ [][NextRace]_vars

\* C18: of two update_session calls on one session id that interleave at
\* their storage calls, neither fails, whatever the interleaving; both can
\* return a session while the persisted history has grown by one entry only.
C18_NoCallFails ==
  \A c \in Calls : calls[c].pc # "failed"

\* Both calls returned a session and the persisted history holds the initial
\* entry and the entry of one of them.
C18_LostUpdate ==
  /\ \A c \in Calls : calls[c].pc = "returned"
  /\ RaceSessionId \in DOMAIN session_storage
  /\ Len(Persisted(RaceSessionId)) = 2

(***************************************************************************)
(* The diff engine on its own: two snapshots are drawn, calculate_diff     *)
(* compares them, apply_diff applies the result to the first.              *)
(***************************************************************************)
AlgebraPaths == {"a.py", "b.txt", "c.md", "d.js"}
AlgebraContents == {"x=1", "x=2"}
AlgebraFiles ==
  UNION {[paths -> AlgebraContents] : paths \in SUBSET AlgebraPaths}

AlgebraUnchanged ==
  <<snapshot_storage, session_storage, redis_snapshot, redis_file, redis_session,
    redis_diff, active_sessions, calls, extraction, n_updates, faults>>

DrawSnapshots ==
  /\ algebra.pc = "idle"
  /\ \E old_files \in AlgebraFiles, new_files \in AlgebraFiles :
       algebra' = [algebra EXCEPT
                     !.pc = "drawn",
                     !.old_snapshot =
                       [id |-> 1, files |-> old_files, metadata |-> None],
                     !.new_snapshot =
                       [id |-> 2, files |-> new_files, metadata |-> None]]
  /\ UNCHANGED AlgebraUnchanged

CalculateDiff ==
  /\ algebra.pc = "drawn"
  /\ algebra' = [algebra EXCEPT
                   !.pc = "diffed",
                   !.diff = calculate_diff(algebra.old_snapshot, algebra.new_snapshot)]
  /\ UNCHANGED AlgebraUnchanged

ApplyDiff ==
  /\ algebra.pc = "diffed"
  /\ algebra' = [algebra EXCEPT
                   !.pc = "applied",
                   !.applied = apply_diff(algebra.old_snapshot, algebra.diff),
                   !.old_snapshot =
                     base_after_apply_diff(algebra.old_snapshot, algebra.diff)]
  /\ UNCHANGED AlgebraUnchanged

NextAlgebra ==
  \/ DrawSnapshots
  \/ CalculateDiff
  \/ ApplyDiff

SpecAlgebra == Init /\ [][NextAlgebra]_vars

\* C19: calculate_diff(A, B) puts every path of A or B into exactly one
\* class: added (in B only), deleted (in A only), modified (in both, contents
\* unequal) or unchanged (in both, contents equal, in none of the three
\* sets); the three sets are pairwise disjoint, and added and modified carry
\* B's files.
C19_DiffPartitions ==
  algebra.pc \in {"diffed", "applied"} =>
    LET A == algebra.old_snapshot.files
        B == algebra.new_snapshot.files
        added == DOMAIN algebra.diff.added
        modified == DOMAIN algebra.diff.modified
        deleted == algebra.diff.deleted
        unchanged == ((DOMAIN A) \cup (DOMAIN B)) \ (added \cup modified \cup deleted)
    IN /\ added = (DOMAIN B) \ (DOMAIN A)
       /\ deleted = (DOMAIN A) \ (DOMAIN B)
       /\ modified = {path \in (DOMAIN A) \cap (DOMAIN B) : A[path] # B[path]}
       /\ unchanged = {path \in (DOMAIN A) \cap (DOMAIN B) : A[path] = B[path]}
       /\ added \cap modified = {}
       /\ added \cap deleted = {}
       /\ modified \cap deleted = {}
       /\ \A path \in added : algebra.diff.added[path] = B[path]
       /\ \A path \in modified : algebra.diff.modified[path] = B[path]

\* A diff with a path in each of the four classes.
C19_AllFourClasses ==
  /\ algebra.pc = "diffed"
  /\ DOMAIN algebra.diff.added # {}
  /\ DOMAIN algebra.diff.modified # {}
  /\ algebra.diff.deleted # {}
  /\ \E path \in (DOMAIN algebra.old_snapshot.files) \cap (DOMAIN algebra.new_snapshot.files) :
       algebra.old_snapshot.files[path] = algebra.new_snapshot.files[path]

\* C20: apply_diff(A, calculate_diff(A, B)) has exactly the paths of B and,
\* for each path, B's content; calculate_diff(A, A) has empty added, modified
\* and deleted, and applying it to A yields A's file contents.
C20_ApplyInvertsDiff ==
  algebra.pc = "applied" =>
    /\ algebra.applied.files = algebra.new_snapshot.files
    /\ algebra.old_snapshot.files = algebra.new_snapshot.files =>
         /\ algebra.diff = NoDiff
         /\ algebra.applied.files = algebra.old_snapshot.files

\* A diff with additions, modifications, deletions and unchanged paths was
\* applied.
C20_AppliedMixedDiff ==
  /\ algebra.pc = "applied"
  /\ DOMAIN algebra.diff.added # {}
  /\ DOMAIN algebra.diff.modified # {}
  /\ algebra.diff.deleted # {}
  /\ Cardinality(DOMAIN algebra.applied.files) >= 3

(***************************************************************************)
(* The diff codec on its own: a DiffResult is drawn, serialize_diff turns  *)
(* it into a plain nested mapping, deserialize_diff builds a DiffResult    *)
(* from the mapping.  A drawn file may carry a path other than its key,    *)
(* and metadata or none.                                                   *)
(***************************************************************************)
CodecPaths == {"a.py", "b.txt"}
CodecFiles ==
  {CodeFile([path |-> path, content |-> "x=1", metadata |-> metadata]) :
     path \in CodecPaths,
     metadata \in {None, [type |-> "dict", language |-> "Python"]}}
CodecDiffs ==
  LET maps == UNION {[paths -> CodecFiles] : paths \in SUBSET CodecPaths}
  IN {[added |-> added, modified |-> modified, deleted |-> deleted] :
        added \in maps, modified \in maps, deleted \in SUBSET CodecPaths}

DrawDiff ==
  /\ algebra.pc = "idle"
  /\ \E diff \in CodecDiffs :
       algebra' = [algebra EXCEPT !.pc = "diff drawn", !.diff = diff]
  /\ UNCHANGED AlgebraUnchanged

SerializeDiff ==
  /\ algebra.pc = "diff drawn"
  /\ algebra' = [algebra EXCEPT !.pc = "serialized",
                                !.diff_dict = serialize_diff(algebra.diff)]
  /\ UNCHANGED AlgebraUnchanged

DeserializeDiff ==
  /\ algebra.pc = "serialized"
  /\ algebra' = [algebra EXCEPT !.pc = "deserialized",
                                !.restored = deserialize_diff(algebra.diff_dict)]
  /\ UNCHANGED AlgebraUnchanged

NextCodec ==
  \/ DrawDiff
  \/ SerializeDiff
  \/ DeserializeDiff

SpecCodec == Init /\ [][NextCodec]_vars

\* C21: deserialize_diff(serialize_diff(D)) equals D: added and modified
\* have the same keys and, per key, a CodeFile with the same path, content
\* and metadata; deleted has the same paths.
C21_DiffCodecRoundTrip ==
  algebra.pc = "deserialized" =>
    LET D == algebra.diff
        R == algebra.restored
    IN /\ DOMAIN R.added = DOMAIN D.added
       /\ DOMAIN R.modified = DOMAIN D.modified
       /\ \A path \in DOMAIN D.added :
            /\ R.added[path].cls = "CodeFile"
            /\ R.added[path].path = D.added[path].path
            /\ R.added[path].content = D.added[path].content
            /\ R.added[path].metadata = D.added[path].metadata
       /\ \A path \in DOMAIN D.modified :
            /\ R.modified[path].cls = "CodeFile"
            /\ R.modified[path].path = D.modified[path].path
            /\ R.modified[path].content = D.modified[path].content
            /\ R.modified[path].metadata = D.modified[path].metadata
       /\ R.deleted = D.deleted
       /\ R = D

\* A restored diff with an added file that carries metadata and a path other
\* than its key, a modified file without metadata, and a deleted path.
C21_RestoredMixedDiff ==
  /\ algebra.pc = "deserialized"
  /\ \E path \in DOMAIN algebra.diff.added :
       /\ algebra.diff.added[path].path # path
       /\ algebra.diff.added[path].metadata # None
  /\ \E path \in DOMAIN algebra.diff.modified :
       algebra.diff.modified[path].metadata = None
  /\ algebra.diff.deleted # {}

\* C22: a create_session(payload) that returns a session returns one with
\* an id no stored, cached or held session carries, whose version_history
\* is the single entry (version 1, "Initial snapshot", the id of
\* session.snapshot), whose snapshot has exactly the payload's paths, and
\* which get_session(session.id) returns right afterwards.
C22_CreateSession ==
  \A codebase \in CodeBases, pl \in {NoFault, CacheDown} :
    LET r == create_session(codebase, pl)
        history == r.session.metadata.version_history
    IN r.status = "ok" =>
         /\ r.session.id \notin
              (DOMAIN session_storage) \cup (DOMAIN redis_session)
                \cup (DOMAIN active_sessions)
         /\ Len(history) = 1
         /\ history[1].version = 1
         /\ history[1].description = "Initial snapshot"
         /\ history[1].snapshot_id = r.session.snapshot.id
         /\ DOMAIN r.session.snapshot.files = DOMAIN codebase
         /\ get_session_after(r, r.session.id).status = "ok"
         /\ get_session_after(r, r.session.id).session = r.session

\* A session just created: stored, held by the manager, one entry long.
C22_SessionCreated ==
  \E session_id \in DOMAIN active_sessions :
    /\ session_id \in DOMAIN session_storage
    /\ Len(active_sessions[session_id].metadata.version_history) = 1
    /\ Len(Persisted(session_id)) = 1

\* In a history, an entry shares its snapshot id with an earlier entry only
\* if it is a revert entry.
OnlyRevertsShare(version_history) ==
  \A i \in 1..Len(version_history), j \in 1..Len(version_history) :
    (i < j /\ version_history[i].snapshot_id = version_history[j].snapshot_id)
      => "reverted_from" \in DOMAIN version_history[j]

\* Outcome r of an ingestion call stored the call's snapshot under an id no
\* stored snapshot carried, and left every stored snapshot as it was.
StoredAside(r) ==
  r.status = "ok" =>
    /\ r.session.snapshot.id \notin DOMAIN snapshot_storage
    /\ r.session.snapshot.id \in DOMAIN r.w.snapshot_storage
    /\ \A snapshot_id \in DOMAIN snapshot_storage :
         r.w.snapshot_storage[snapshot_id] = snapshot_storage[snapshot_id]

\* C23: ingestion never overwrites a snapshot in place: every create_session
\* and update_session that returns a session has stored its snapshot under
\* an id distinct from every id stored before and has left the stored
\* snapshots as they were; in every history, persisted or held, non-revert
\* entries reference pairwise distinct snapshot ids and only revert entries
\* share an id with an earlier entry.
C23_SnapshotsNeverOverwritten ==
  /\ \A codebase \in CodeBases, pl \in {NoFault, CacheDown} :
       StoredAside(create_session(codebase, pl))
  /\ \A session_id \in DOMAIN session_storage, codebase \in CodeBases,
        pl \in {NoFault, CacheDown} :
       StoredAside(update_session(session_id, codebase, pl))
  /\ \A session_id \in DOMAIN session_storage :
       OnlyRevertsShare(Persisted(session_id))
  /\ \A session_id \in DOMAIN active_sessions :
       OnlyRevertsShare(active_sessions[session_id].metadata.version_history)

(***************************************************************************)
(* Metadata extractor.  A path is what os.path.splitext makes of it; a     *)
(* content carries, beside its text, what the library calls on it give:    *)
(* its length, its lines (content.splitlines(): each line's length and     *)
(* whether, once stripped, it is empty, starts with # or is code), whether *)
(* content.encode() succeeds, what libmagic calls it, and what ast.parse   *)
(* does with it (a tree with its classes, functions and imports, or the    *)
(* exception raised).                                                      *)
(***************************************************************************)
MetadataPaths ==
  {[root |-> "a", ext |-> ".py"], [root |-> "APP", ext |-> ".PY"],
   [root |-> "b", ext |-> ".js"], [root |-> "c", ext |-> ".xyz"],
   [root |-> "Makefile", ext |-> ""]}

NoStructure == [classes |-> <<>>, functions |-> <<>>, imports |-> <<>>]

MetadataContents ==
  { \* the empty file
    [text |-> "", length |-> 0, lines |-> <<>>, encodes |-> TRUE, mime |-> "application/x-empty",
     ast |-> "tree", structure |-> NoStructure],
    \* import os / (blank) / # c / class A: / def f(self): pass
    [text |-> "import os..class A", length |-> 45, encodes |-> TRUE, mime |-> "text/x-python",
     lines |-> <<[length |-> 9, stripped |-> "code"], [length |-> 0, stripped |-> ""],
                 [length |-> 3, stripped |-> "#"], [length |-> 8, stripped |-> "code"],
                 [length |-> 21, stripped |-> "code"]>>,
     ast |-> "tree",
     structure |-> [classes |-> <<[name |-> "A", lineno |-> 4, methods |-> <<"f">>]>>,
                    functions |-> <<[name |-> "f", lineno |-> 5, args |-> <<"self">>]>>,
                    imports |-> <<"os">>]],
    \* def (
    [text |-> "def (", length |-> 5, encodes |-> TRUE, mime |-> "text/plain",
     lines |-> <<[length |-> 5, stripped |-> "code"]>>,
     ast |-> "SyntaxError", structure |-> NoStructure],
    \* x = "\ud800": a lone surrogate, as json.loads makes of the escape \ud800
    [text |-> "x='\\ud800'", length |-> 5, encodes |-> FALSE, mime |-> "text/plain",
     lines |-> <<[length |-> 5, stripped |-> "code"]>>,
     ast |-> "UnicodeEncodeError", structure |-> NoStructure],
    \* x = ----...1 with 200000 minus signs: the parser runs out of stack
    [text |-> "x=-----...1", length |-> 200003, encodes |-> TRUE, mime |-> "text/plain",
     lines |-> <<[length |-> 200003, stripped |-> "code"]>>,
     ast |-> "MemoryError", structure |-> NoStructure] }

\* datetime.now(): the clock's readings.
Clock == 1..3

\* language_map.get(ext.lower(), 'Unknown'), for the extensions drawn
detect_language(file_path) ==
  CASE file_path.ext \in {".py", ".PY"} -> "Python"
    [] file_path.ext = ".js" -> "JavaScript"
    [] OTHER -> "Unknown"

\* The function's result or the exception that leaves it.
Returned(value) == [status |-> "ok", value |-> value, exc |-> ""]
Thrown(exc) == [status |-> "raise", value |-> NoStructure, exc |-> exc]

\* ast.parse in a try that catches SyntaxError only.
analyze_python_structure(content) ==
  CASE content.ast = "tree" -> Returned(content.structure)
    [] content.ast = "SyntaxError" -> Returned(NoStructure)
    [] OTHER -> Thrown(content.ast)

\* average_line_length in hundredths of a character.
calculate_complexity_metrics(content) ==
  LET lines == content.lines
      RECURSIVE sum(_)
      sum(n) == IF n = 0 THEN 0 ELSE lines[n].length + sum(n - 1)
      lengths == {lines[i].length : i \in 1..Len(lines)}
      with(kinds) == Cardinality({i \in 1..Len(lines) : lines[i].stripped \in kinds})
  IN [total_lines |-> Len(lines),
      blank_lines |-> with({""}),
      comment_lines |-> with({"#"}),
      code_lines |-> with({"code"}),
      average_line_length |->
        IF lines # <<>> THEN (100 * sum(Len(lines))) \div Len(lines) ELSE 0,
      max_line_length |->
        IF lines # <<>> THEN CHOOSE m \in lengths : \A l \in lengths : l <= m ELSE 0]

\* The metadata dictionary once the language-specific analysis has answered.
metadata_with_structure(metadata, structure) ==
  IF structure.status = "raise"
    THEN [status |-> "raise", exc |-> structure.exc, metadata |-> metadata]
    ELSE [status |-> "ok", exc |-> "",
          metadata |-> [metadata EXCEPT !.structure = structure.value]]

\* extract_file_metadata at clock reading now: [status, exc, metadata]; a
\* file that is not Python gets no structure.
extract_file_metadata(file_path, content, now) ==
  LET metadata ==
        [language |-> detect_language(file_path),
         size_bytes |-> content.length,
         mime_type |-> content.mime,
         last_modified |-> now,
         complexity_metrics |-> calculate_complexity_metrics(content),
         structure |-> None]
  IN IF ~content.encodes       \* magic.from_buffer(content.encode(), mime=True)
       THEN [status |-> "raise", exc |-> "UnicodeEncodeError", metadata |-> metadata]
     ELSE IF metadata.language = "Python"
       THEN metadata_with_structure(metadata, analyze_python_structure(content))
       ELSE [status |-> "ok", exc |-> "", metadata |-> metadata]

ExtractionUnchanged ==
  <<snapshot_storage, session_storage, redis_snapshot, redis_file, redis_session,
    redis_diff, active_sessions, calls, algebra, n_updates, faults>>

\* A caller picks a file.
DrawFile ==
  /\ extraction.pc = "idle"
  /\ \E file_path \in MetadataPaths, content \in MetadataContents :
       extraction' = [extraction EXCEPT !.pc = "drawn", !.file_path = file_path,
                                        !.content = content]
  /\ UNCHANGED ExtractionUnchanged

\* One call, and a later call on the same file.
ExtractFileMetadata ==
  /\ extraction.pc \in {"drawn", "extracted"}
  /\ \E now \in Clock :
       /\ now >= extraction.now
       /\ extraction' =
            IF extraction.pc = "drawn"
              THEN [extraction EXCEPT
                      !.pc = "extracted", !.now = now,
                      !.first = extract_file_metadata(extraction.file_path,
                                                      extraction.content, now)]
              ELSE [extraction EXCEPT
                      !.pc = "extracted twice", !.now = now,
                      !.second = extract_file_metadata(extraction.file_path,
                                                       extraction.content, now)]
  /\ UNCHANGED ExtractionUnchanged

NextMetadata ==
  \/ DrawFile
  \/ ExtractFileMetadata

SpecMetadata == Init /\ [][NextMetadata]_vars

\* C24: two calls of extract_file_metadata with the same path and content,
\* at any two times, return equal metadata.
C24_ExtractionDeterministic ==
  (extraction.pc = "extracted twice"
     /\ extraction.first.status = "ok" /\ extraction.second.status = "ok")
    => extraction.second.metadata = extraction.first.metadata

\* C25: extract_file_metadata never fails: every call returns metadata
\* whose language is the table's entry for the extension, or "Unknown";
\* whose average and maximum line length are 0 for empty content; and whose
\* classes, functions and imports are empty when Python content does not
\* parse.  create_session calls it for every file of the payload outside
\* any try block, so a call that fails is a create_session that fails.
C25_ExtractionNeverFails ==
  extraction.pc \in {"extracted", "extracted twice"} =>
    LET r == extraction.first
        ext == extraction.file_path.ext
        content == extraction.content
    IN /\ r.status = "ok"
       /\ r.metadata.language =
            (CASE ext \in {".py", ".PY"} -> "Python"
               [] ext = ".js" -> "JavaScript"
               [] OTHER -> "Unknown")
       /\ content.lines = <<>> =>
            /\ r.metadata.complexity_metrics.average_line_length = 0
            /\ r.metadata.complexity_metrics.max_line_length = 0
       /\ (r.metadata.language = "Python" /\ content.ast # "tree") =>
            r.metadata.structure = NoStructure

\* C26: a get_snapshot that read the snapshot from the durable store and
\* found no cache metadata returns that snapshot, whatever becomes of the
\* cache population (store_snapshot) that follows the read.
C26_PopulationFailureNotMasking ==
  \A id \in DOMAIN snapshot_storage,
     pl \in {p \in StorePlans : p.kind # "rerr"} :
    LET r == get_snapshot(World, pl, id)
    IN ~get_hash_cache(redis_snapshot, id, pl, 1).hit =>
         /\ r.status = "ok"
         /\ r.snapshot = [id |-> id, files |-> snapshot_storage[id]]

\* C27: store_snapshot writes the durable store before the cache: a call
\* that wrote a cache entry (snapshot metadata or file) has the snapshot in
\* the durable store, and a call whose durable write failed leaves the cache
\* as it was and ends in an exception.
C27_DurableWriteFirst ==
  \A id \in StoreIds, files \in StoreFiles, pl \in StorePlans :
    LET w == store_snapshot(World, pl, [id |-> id, files |-> files])
        cache_written == w.redis_snapshot # redis_snapshot \/ w.redis_file # redis_file
    IN /\ cache_written =>
            (id \in DOMAIN w.snapshot_storage /\ w.snapshot_storage[id] = files)
       /\ w.wfail => (~cache_written /\ w.exc # "")

\* C28: get_snapshot looks the snapshot's cache metadata up first: a call
\* that has read the durable store has asked the cache before, and a call
\* that found the cache metadata and was served every file by the cache has
\* read nothing from the durable store.
C28_CacheLookupFirst ==
  \A id \in StoreIds :
    LET r == get_snapshot(World, NoFault, id)
    IN /\ r.w.nr > 0 => r.w.nc > 0
       /\ (r.status = "ok" /\ id \in DOMAIN redis_snapshot
             /\ r.cached = DOMAIN r.snapshot.files) => r.w.nr = 0

\* C29: for a snapshot in the durable store without cache metadata, a
\* get_snapshot with Redis answering leaves the snapshot's metadata entry
\* and a file entry for every file below 524288 bytes in the cache, and a
\* second get_snapshot returns a snapshot with the same id and files.
C29_LazyWriteThrough ==
  \A id \in (DOMAIN snapshot_storage) \ (DOMAIN redis_snapshot) :
    LET first == get_snapshot(World, NoFault, id)
        second == get_snapshot(Fresh(first.w), NoFault, id)
    IN /\ first.status = "ok"
       /\ id \in DOMAIN first.w.redis_snapshot
       /\ \A path \in DOMAIN snapshot_storage[id] :
            content_size(snapshot_storage[id][path]) < CACHE_LIMIT =>
              /\ <<id, path>> \in DOMAIN first.w.redis_file
              /\ first.w.redis_file[<<id, path>>].content = snapshot_storage[id][path]
       /\ second.status = "ok"
       /\ second.snapshot = first.snapshot

(***************************************************************************)
(* apply_diff on any diff: a base snapshot and a DiffResult are drawn      *)
(* independently of each other, so that modified may name paths the base   *)
(* lacks and a path may be in several of the three parts.  The contents    *)
(* tell where a file of the result came from.                              *)
(***************************************************************************)
ApplyPaths == {"a.py", "b.txt", "c.md"}
ApplyFiles(content) == UNION {[paths -> {content}] : paths \in SUBSET ApplyPaths}

DrawBaseAndDiff ==
  /\ algebra.pc = "idle"
  /\ \E files \in ApplyFiles("base"), added \in ApplyFiles("added"),
        modified \in ApplyFiles("modified"), deleted \in SUBSET ApplyPaths,
        id \in {1, 2}, metadata \in {None, [type |-> "dict", version |-> 1]} :
       algebra' = [algebra EXCEPT
                     !.pc = "diffed",
                     !.old_snapshot =
                       [id |-> id, files |-> files, metadata |-> metadata],
                     !.diff = [added |-> added, modified |-> modified,
                               deleted |-> deleted]]
  /\ UNCHANGED AlgebraUnchanged

NextApply ==
  \/ DrawBaseAndDiff
  \/ ApplyDiff

SpecApply == Init /\ [][NextApply]_vars

\* C30: apply_diff(base, diff) has the paths of base and of added that are
\* not in deleted; a path's file is its modified entry if it has one, else
\* its added entry if it has one, else base's file.  A modified entry for a
\* path neither in base nor in added does not bring that path in, and a path
\* in both added and deleted is absent.
C30_ApplyDiffSteps ==
  algebra.pc = "applied" =>
    LET base == algebra.old_snapshot.files
        added == algebra.diff.added
        modified == algebra.diff.modified
        deleted == algebra.diff.deleted
        result == algebra.applied.files
    IN /\ DOMAIN result = ((DOMAIN base) \cup (DOMAIN added)) \ deleted
       /\ \A path \in DOMAIN result :
            result[path] = IF path \in DOMAIN modified THEN modified[path]
                           ELSE IF path \in DOMAIN added THEN added[path]
                           ELSE base[path]
       /\ \A path \in (DOMAIN modified) \ ((DOMAIN base) \cup (DOMAIN added)) :
            path \notin DOMAIN result
       /\ \A path \in (DOMAIN added) \cap deleted : path \notin DOMAIN result

\* A diff applied whose modified names a path neither in base nor in added,
\* and which has a path in both added and deleted and a path it overwrites.
C30_AppliedForeignDiff ==
  /\ algebra.pc = "applied"
  /\ (DOMAIN algebra.diff.modified)
       \ ((DOMAIN algebra.old_snapshot.files) \cup (DOMAIN algebra.diff.added)) # {}
  /\ (DOMAIN algebra.diff.added) \cap algebra.diff.deleted # {}
  /\ \E path \in DOMAIN algebra.applied.files :
       algebra.applied.files[path] = "modified"

C32_GetSessionReadThrough ==
  \A session_id \in CallerSessionIds, pl \in {NoFault, CacheDown} :
    LET r == get_session(session_id, pl)
        g == get_debugging_session(World, pl, session_id)
    IN IF session_id \in DOMAIN active_sessions
         THEN /\ r.status = "ok"
              /\ r.session = active_sessions[session_id]
              /\ r.w = World
              /\ r.active = active_sessions
         ELSE /\ r.status = g.status
              /\ r.w = g.w
              /\ g.status = "ok" =>
                   /\ r.session = g.session
                   /\ r.active = Put(active_sessions, session_id, g.session)
              /\ g.status = "none" =>
                   /\ r.session = NoSession
                   /\ r.active = active_sessions

\* The working set holds a session that storage would return differently,
\* and a caller asks for an id neither the working set nor storage knows.
C32_HeldDiffersFromStored ==
  /\ 1 \in DOMAIN active_sessions
  /\ get_debugging_session(World, NoFault, 1).status = "ok"
  /\ get_debugging_session(World, NoFault, 1).session # active_sessions[1]
  /\ 2 \notin (DOMAIN active_sessions) \cup (DOMAIN session_storage)

(***************************************************************************)
(* CodeIngestionManager: the ignore patterns and process_debugging_payload *)
(***************************************************************************)
\* The paths payloads name: a source file, a file under .git, a compiled
\* file beside the sources and a file below a nested node_modules.
IngestPaths == {"a.py", ".git/config", "x.pyc", "lib/node_modules/m.js"}

\* file_path.replace('\\', '/') cut at its slashes.
normalized_path(file_path) ==
  CASE file_path = ".git/config" -> <<".git", "config">>
    [] file_path = "lib/node_modules/m.js" -> <<"lib", "node_modules", "m.js">>
    [] OTHER -> <<file_path>>

\* The end of the path from its last dot on.
suffix(file_path) ==
  CASE file_path = "a.py" -> ".py"
    [] file_path = "x.pyc" -> ".pyc"
    [] file_path = "lib/node_modules/m.js" -> ".js"
    [] OTHER -> ""

\* self.ignore_patterns: the patterns that start with "*" (kept without the
\* star) and the others.
star_patterns ==
  {".pyc", ".pyo", ".pyd", ".so", ".dylib", ".dll", ".log", ".tmp"}
plain_patterns ==
  {".git", "node_modules", "__pycache__", ".docker", ".venv", ".env", ".DS_Store"}

\* fnmatch for a starred pattern; startswith(pattern) or "/" + pattern in
\* the path for a plain one (no segment of IngestPaths merely begins with a
\* plain pattern).
is_valid_file(file_path) ==
  /\ suffix(file_path) \notin star_patterns
  /\ ~\E i \in 1..Len(normalized_path(file_path)) :
        normalized_path(file_path)[i] \in plain_patterns

\* The payloads' codebases.
IngestCodeBases ==
  { ("a.py" :> "x=1"),
    ("a.py" :> "x=1") @@ ("x.pyc" :> "x=2"),
    (".git/config" :> "x=1"),
    ("a.py" :> "x=2") @@ ("lib/node_modules/m.js" :> "x=1") }

\* "except Exception as e: raise Exception(...)", and the ValueError for a
\* session that update_session did not find.
payload_processed(r) ==
  IF r.status = "ok" THEN r ELSE [r EXCEPT !.status = "raise"]

\* A payload that names no session (session_id is None or empty).
NoSessionId == 0

\* "if payload.session_id": valid_files is built and left aside, the session
\* manager is given the payload.
process_debugging_payload(session_id, codebase, pl) ==
  payload_processed(
    IF session_id # NoSessionId
      THEN update_session(session_id, codebase, pl)
      ELSE create_session(codebase, pl))

ProcessDebuggingPayload(pl) ==
  /\ new_snapshot_id \in SnapshotIds
  /\ Budget(pl)
  /\ \E session_id \in {NoSessionId} \cup SessionIds, codebase \in IngestCodeBases :
       /\ session_id = NoSessionId => new_session_id \in SessionIds
       /\ session_id # NoSessionId => HistoryLen(session_id) < MaxHistory
       /\ \E r \in {process_debugging_payload(session_id, codebase, pl)} :
            /\ Faulty(pl, r.w)
            /\ Commit(r)
            /\ n_updates' = IF r.status = "ok" /\ session_id # NoSessionId
                              THEN [n_updates EXCEPT ![session_id] = @ + 1]
                              ELSE n_updates

NextIngest ==
  \/ \E pl \in Plans : ProcessDebuggingPayload(pl)
  \/ NewManager
  \/ EvictSnapshot
  \/ EvictFile
  \/ EvictSession

SpecIngest == Init /\ [][NextIngest]_vars

\* C33: process_debugging_payload ingests no file that is_valid_file
\* rejects: no snapshot created or updated from a payload holds a path that
\* matches an ignore pattern.
C33_NoIgnoredPathIngested ==
  \A id \in DOMAIN snapshot_storage :
    \A p \in DOMAIN snapshot_storage[id] : is_valid_file(p)

(***************************************************************************)
(* get_debugging_session: the two tiers                                    *)
(***************************************************************************)
\* The world with the session's cache entry evicted.
WorldSessionMiss(session_id) ==
  [World EXCEPT !.redis_session = Drop(@, session_id)]

\* C34: for a session stored by store_debugging_session, the session that
\* get_debugging_session returns on a cache hit and the one it returns on a
\* cache miss (durable fallback) have the same metadata, version_history
\* included.
C34_TierIndependent ==
  \A session_id \in (DOMAIN session_storage) \cap (DOMAIN redis_session) :
    LET hit == get_debugging_session(World, NoFault, session_id)
        miss == get_debugging_session(WorldSessionMiss(session_id), NoFault, session_id)
    IN (hit.status = "ok" /\ miss.status = "ok") =>
         hit.session.metadata = miss.session.metadata

(***************************************************************************)
(* The durable store: what session records refer to                        *)
(***************************************************************************)
\* The snapshot ids a durably persisted session record names.
referenced(session_id) ==
  {session_storage[session_id].snapshot_id} \cup
  {Persisted(session_id)[i].snapshot_id : i \in 1..Len(Persisted(session_id))}

C36_StoredSnapshotsImmutable ==
  [][\A id \in DOMAIN snapshot_storage :
       /\ id \in DOMAIN snapshot_storage'
       /\ DOMAIN snapshot_storage'[id] = DOMAIN snapshot_storage[id]
       /\ \A path \in DOMAIN snapshot_storage[id] :
            snapshot_storage'[id][path] = snapshot_storage[id][path]]_vars

\* The plans under which an upload of store_debugging_session fails: the
\* snapshot's or the session record's.
PersistFailures == [cache : {TRUE}, kind : {"werr"}, at : 1..2]

\* C37: a revert_to_version whose persist step fails causes no partial
\* mutation: get_session(id) on the same manager afterwards returns a
\* session with the version_history and the current snapshot from before the
\* call.
C37_FailedRevertLeavesSession ==
  \A session_id \in DOMAIN session_storage, version \in 1..MaxHistory,
     pl \in PersistFailures :
    LET before == get_session(session_id, NoFault)
        r == revert_to_version(session_id, version, pl)
        after == get_session_after(r, session_id)
    IN (before.status = "ok" /\ r.status = "raise" /\ r.w.wfail) =>
         /\ after.status = "ok"
         /\ after.session.metadata.version_history =
              before.session.metadata.version_history
         /\ after.session.snapshot = before.session.snapshot

(***************************************************************************)
(* get_debugging_session with its storage calls as suspension points: a    *)
(* read of the session takes its lookup, its download and its write-back   *)
(* one at a time while update_session calls of other requests run.         *)
(***************************************************************************)
\* "Fallback to Supabase": the session record is downloaded; a cache hit is
\* served as get_debugging_session serves it.
ReadDownload(c) ==
  /\ calls[c].pc = "looked"
  /\ IF calls[c].cached_metadata.hit
       THEN \E g \in {session_from_tiers([World EXCEPT !.nc = 1], NoFault,
                                         RaceSessionId, calls[c].cached_metadata)} :
              /\ CommitStores(g.w)
              /\ calls' = [calls EXCEPT
                   ![c].pc = IF g.status = "ok" THEN "returned" ELSE g.status,
                   ![c].session = g.session]
       ELSE \E result \in {download_file(session_storage, RaceSessionId, NoFault, 1)} :
              /\ calls' = [calls EXCEPT
                   ![c].pc = IF result.status = "ok" THEN "downloaded" ELSE result.status,
                   ![c].session =
                     IF result.status = "ok"
                       THEN [id |-> RaceSessionId,
                             snapshot |-> [id |-> result.data.snapshot_id,
                                           files |-> Empty],
                             metadata |-> result.data.metadata]
                       ELSE NoSession]
              /\ UNCHANGED <<snapshot_storage, session_storage, redis_snapshot,
                             redis_file, redis_session, redis_diff, active_sessions,
                             algebra, extraction, n_updates, faults>>

\* session_data as the read holds it after its download.
session_data_held(c) ==
  [snapshot_id |-> calls[c].session.snapshot.id,
   snapshot |-> calls[c].session.snapshot.id,
   metadata |-> calls[c].session.metadata]

\* get_snapshot(session_data["snapshot_id"]) and "Cache in Redis for next
\* time": store_debugging_session with the session as it was downloaded.
ReadWriteBack(c) ==
  /\ calls[c].pc = "downloaded"
  /\ \E g \in {session_with_snapshot(
                 NoFault, RaceSessionId, session_data_held(c),
                 get_snapshot([World EXCEPT !.nr = 1, !.nc = 1], NoFault,
                              calls[c].session.snapshot.id))} :
       /\ CommitStores(g.w)
       /\ calls' = [calls EXCEPT
            ![c].pc = IF g.status = "ok" THEN "returned" ELSE g.status,
            ![c].session = g.session]

NextRead ==
  \/ CreateSession(NoFault, SnapshotIds)
  \/ UpdateSession(NoFault, SnapshotIds)
  \/ EvictSession
  \/ \E c \in Calls : CallLookup(c)
  \/ \E c \in Calls : ReadDownload(c)
  \/ \E c \in Calls : ReadWriteBack(c)

SpecRead == Init /\ [][NextRead]_vars

\* C38: a get_debugging_session that runs while update_session calls run on
\* the same id never makes the durable session record regress: over every
\* step the persisted version_history gets no shorter and the record's
\* snapshot_id names no older snapshot than before.
C38_ReadsNeverRegress ==
  [][\A session_id \in DOMAIN session_storage :
       /\ session_id \in DOMAIN session_storage'
       /\ Len(session_storage'[session_id].metadata.version_history)
            >= Len(Persisted(session_id))
       /\ session_storage'[session_id].snapshot_id
            >= session_storage[session_id].snapshot_id]_vars

(***************************************************************************)
(* Two sessions: requests on either of them, each served by a manager that *)
(* may or may not be the one that served the request before.               *)
(***************************************************************************)
PairSessionIds == {1, 2}
PairSnapshotIds == {1, 2, 3}
PairPlans == {NoFault}

PairCreate(pl) ==
  /\ new_snapshot_id \in PairSnapshotIds
  /\ new_session_id \in PairSessionIds
  /\ \E codebase \in CodeBases :
       \E r \in {create_session(codebase, pl)} : Faulty(pl, r.w) /\ Commit(r)
  /\ UNCHANGED n_updates

PairUpdate(pl) ==
  /\ new_snapshot_id \in PairSnapshotIds
  /\ \E session_id \in PairSessionIds, codebase \in CodeBases :
       /\ HistoryLen(session_id) < MaxHistory
       /\ \E r \in {update_session(session_id, codebase, pl)} :
            Faulty(pl, r.w) /\ Commit(r)
  /\ UNCHANGED n_updates

PairRevert(pl) ==
  /\ \E session_id \in PairSessionIds :
     \E version \in 1..HistoryLen(session_id) :
       /\ HistoryLen(session_id) < MaxHistory
       /\ \E r \in {revert_to_version(session_id, version, pl)} :
            Faulty(pl, r.w) /\ Commit(r)
  /\ UNCHANGED n_updates

NextPair ==
  \/ \E pl \in PairPlans : PairCreate(pl)
  \/ \E pl \in PairPlans : PairUpdate(pl)
  \/ \E pl \in PairPlans : PairRevert(pl)
  \/ NewManager
  \/ EvictSession

SpecPair == Init /\ [][NextPair]_vars

\* Outcome r of a call left session b as it was: its persisted record, every
\* snapshot the record names, its cache entry and the session the working
\* set holds for it.
Untouched(b, r) ==
  /\ b \in DOMAIN r.w.session_storage
  /\ r.w.session_storage[b] = session_storage[b]
  /\ \A id \in referenced(b) :
       /\ id \in DOMAIN r.w.snapshot_storage
       /\ r.w.snapshot_storage[id] = snapshot_storage[id]
  /\ b \in DOMAIN redis_session =>
       (b \in DOMAIN r.w.redis_session /\ r.w.redis_session[b] = redis_session[b])
  /\ b \in DOMAIN active_sessions =>
       (b \in DOMAIN r.active /\ r.active[b] = active_sessions[b])

\* C39: operations on one session do not affect another: in every state that
\* interleaved operations on sessions A and B reach, create_session and
\* every update_session and revert_to_version on A leave B's persisted
\* version_history, B's current snapshot and every snapshot B references
\* unchanged, whether or not the call succeeds.
C39_OtherSessionUntouched ==
  \A b \in DOMAIN session_storage, pl \in {NoFault, CacheDown} \cup PersistFailures :
    /\ \A codebase \in CodeBases : Untouched(b, create_session(codebase, pl))
    /\ \A a \in PairSessionIds \ {b} :
         /\ \A codebase \in CodeBases :
              Untouched(b, update_session(a, codebase, pl))
         /\ \A version \in 1..MaxHistory :
              Untouched(b, revert_to_version(a, version, pl))

\* Both sessions are stored, each with an update behind it, one of them with
\* a revert, and a further update of session 1 would go through.
C39_TwoSessionsWithHistory ==
  /\ DOMAIN session_storage = PairSessionIds
  /\ Len(Persisted(2)) >= 2
  /\ \E i \in 1..Len(Persisted(1)) : "reverted_from" \in DOMAIN Persisted(1)[i]
  /\ \E codebase \in CodeBases :
       update_session(1, codebase, NoFault).status = "ok"

====
